---- MODULE Spec2Model ----
(***************************************************************************)
(* Model of the warefs-duden API (src/api/src/index.js) and of the editor  *)
(* form of the web client (src/web/src/App.jsx): the entry store with its  *)
(* morphology rule, the situational alternatives cache with its            *)
(* snapshot-then-insert deduplication, and the AI completion merge.        *)
(*                                                                         *)
(* JavaScript strings are sequences of one-character strings, so that      *)
(* trim, toLowerCase and toUpperCase are computed, not assumed.            *)
(***************************************************************************)
EXTENDS Integers, Sequences, FiniteSets, TLC

(***************************************************************************)
(* Bounds of the model.                                                    *)
(***************************************************************************)
\* number of generate requests that may be in flight at the same time
MaxCalls == 2
\* number of oracle calls issued in one behaviour
MaxOracleCalls == 2
\* number of entries created in one behaviour
MaxEntries == 2

(***************************************************************************)
(* Strings.                                                                *)
(***************************************************************************)
UpperCaseLetters ==
  <<"A", "B", "C", "D", "E", "F", "G", "H", "I", "J", "K", "L", "M",
    "N", "O", "P", "Q", "R", "S", "T", "U", "V", "W", "X", "Y", "Z">>

LowerCaseLetters ==
  <<"a", "b", "c", "d", "e", "f", "g", "h", "i", "j", "k", "l", "m",
    "n", "o", "p", "q", "r", "s", "t", "u", "v", "w", "x", "y", "z">>

\* String.prototype.toLowerCase on one character
LowerChar(c) ==
  IF \E i \in DOMAIN UpperCaseLetters : UpperCaseLetters[i] = c
  THEN LowerCaseLetters[CHOOSE i \in DOMAIN UpperCaseLetters : UpperCaseLetters[i] = c]
  ELSE c

\* String.prototype.toUpperCase on one character
UpperChar(c) ==
  IF \E i \in DOMAIN LowerCaseLetters : LowerCaseLetters[i] = c
  THEN UpperCaseLetters[CHOOSE i \in DOMAIN LowerCaseLetters : LowerCaseLetters[i] = c]
  ELSE c

toLowerCase(s) == [i \in DOMAIN s |-> LowerChar(s[i])]

RECURSIVE trimStart(_)
trimStart(s) ==
  IF s = <<>> THEN <<>>
  ELSE IF Head(s) = " " THEN trimStart(Tail(s)) ELSE s

RECURSIVE trimEnd(_)
trimEnd(s) ==
  IF s = <<>> THEN <<>>
  ELSE IF s[Len(s)] = " " THEN trimEnd(SubSeq(s, 1, Len(s) - 1)) ELSE s

\* String.prototype.trim
trim(s) == trimEnd(trimStart(s))

\* Array.prototype.slice(0, n)
Slice(seq, n) == SubSeq(seq, 1, IF Len(seq) < n THEN Len(seq) ELSE n)

\* the elements of a sequence
Range(seq) == {seq[i] : i \in DOMAIN seq}

(***************************************************************************)
(* JSON values of an oracle response: t is the JavaScript type, s the      *)
(* string (t = "str"), a the array elements (t = "arr").                   *)
(***************************************************************************)
Undef == [t |-> "undef", s |-> <<>>, a |-> <<>>]
Num == [t |-> "num", s |-> <<>>, a |-> <<>>]
Str(s) == [t |-> "str", s |-> s, a |-> <<>>]
Arr(a) == [t |-> "arr", s |-> <<>>, a |-> a]
Null == [t |-> "null", s |-> <<>>, a |-> <<>>]

\* !value: undefined, null and "" are falsy (Num stands for a non-zero number)
Falsy(value) == value.t \in {"undef", "null"} \/ (value.t = "str" /\ value.s = <<>>)

\* value ?? other
Coalesce(value, other) == IF value.t \in {"undef", "null"} THEN other ELSE value

\* String(value) of a scalar
StringOf(value) ==
  CASE value.t = "str" -> value.s
    [] value.t = "num" -> <<"7">>
    [] value.t = "null" -> <<"n", "u", "l", "l">>
    [] OTHER -> <<"u", "n", "d", "e", "f", "i", "n", "e", "d">>

(***************************************************************************)
(* Morphology: part of speech and article.                                 *)
(***************************************************************************)
noun == <<"n", "o", "u", "n">>
verb == <<"v", "e", "r", "b">>
der == <<"d", "e", "r">>
die == <<"d", "i", "e">>
das == <<"d", "a", "s">>

allowedPos ==
  << noun, verb,
     <<"a", "d", "j", "e", "c", "t", "i", "v", "e">>,
     <<"a", "d", "v", "e", "r", "b">>,
     <<"i", "n", "t", "e", "r", "j", "e", "c", "t", "i", "o", "n">>,
     <<"p", "a", "r", "t", "i", "c", "l", "e">>,
     <<"c", "o", "n", "j", "u", "n", "c", "t", "i", "o", "n">>,
     <<"p", "r", "e", "p", "o", "s", "i", "t", "i", "o", "n">>,
     <<"p", "h", "r", "a", "s", "e">> >>

Articles == {der, die, das}

\* list.map(String(item).toLowerCase().trim()).filter(allowedPos.includes)
RECURSIVE NormalizeTags(_)
NormalizeTags(list) ==
  IF list = <<>> THEN <<>>
  ELSE LET item == trim(toLowerCase(StringOf(Head(list))))
       IN  (IF item \in Range(allowedPos) THEN <<item>> ELSE <<>>)
           \o NormalizeTags(Tail(list))

\* Array.from(new Set(list)): first occurrences, in order
RECURSIVE Unique(_)
Unique(list) ==
  IF list = <<>> THEN <<>>
  ELSE LET init == Unique(SubSeq(list, 1, Len(list) - 1))
       IN  IF list[Len(list)] \in Range(init) THEN init ELSE Append(init, list[Len(list)])

\* a normalizePartOfSpeech that keeps every valid tag
normalizePartOfSpeechAll(value) ==
  IF Falsy(value) THEN <<>>
  ELSE Unique(NormalizeTags(IF value.t = "arr" THEN value.a ELSE <<value>>))

\* the primary part of speech: at most one tag
normalizePartOfSpeech(value) ==
  IF Falsy(value) THEN <<>>
  ELSE Slice(Unique(NormalizeTags(IF value.t = "arr" THEN value.a ELSE <<value>>)), 1)

capitalizeFirst(value) ==
  IF value = <<>> THEN value ELSE <<UpperChar(value[1])>> \o Tail(value)

normalizeArticle(value) ==
  IF Falsy(value) THEN Undef
  ELSE LET normalized == trim(toLowerCase(StringOf(value)))
       IN  IF normalized \in Articles THEN Str(normalized) ELSE Undef

\* error = TRUE stands for { error: "Artikel ist für Nomen erforderlich." }
validateMorphology(partOfSpeech, article) ==
  LET normalizedPos == normalizePartOfSpeech(partOfSpeech)
      normalizedArticle == normalizeArticle(article)
  IN  IF noun \in Range(normalizedPos)
      THEN IF normalizedArticle = Undef
           THEN [error |-> TRUE, partOfSpeech |-> <<>>, article |-> Undef]
           ELSE [error |-> FALSE, partOfSpeech |-> normalizedPos,
                 article |-> normalizedArticle]
      ELSE [error |-> FALSE, partOfSpeech |-> normalizedPos, article |-> Undef]

(***************************************************************************)
(* The alternatives cache: schema, response coercion, aggregate.           *)
(***************************************************************************)
\* the five situations, in the order of the source
AI_SITUATION_KEYS ==
  <<"arbeit", "schwiegereltern", "philosophie_3uhr", "gasse_betrunken", "behoerdlich">>

Situations == Range(AI_SITUATION_KEYS)

emptyAlternativeResults == [k \in Situations |-> <<>>]

\* cap of cleaned texts per situation in one oracle response
MaxPerSituation == 3

\* toList of normalizeAlternativesResponse
toList(value) ==
  IF value.t = "arr" THEN value.a
  ELSE IF value.t = "str" /\ trim(value.s) # <<>> THEN <<value>>
  ELSE <<>>

\* values.map(trim or "").filter(Boolean) of normalizeAlternativesResponse
RECURSIVE CleanValues(_)
CleanValues(values) ==
  IF values = <<>> THEN <<>>
  ELSE LET c == IF Head(values).t = "str" THEN trim(Head(values).s) ELSE <<>>
       IN  (IF c # <<>> THEN <<c>> ELSE <<>>) \o CleanValues(Tail(values))

\* a cleaning that keeps every text of the situation
cleanedUncapped(value) == CleanValues(toList(value))

cleaned(value) == Slice(CleanValues(toList(value)), MaxPerSituation)

\* normalizeAlternativesResponse accepting a situation left without text
normalizeAlternativesResponsePartial(payload, itemText) ==
  IF payload.kind # "object"
  THEN [ok |-> FALSE, item |-> itemText, results |-> emptyAlternativeResults]
  ELSE LET results == IF payload.hasResults THEN payload.results
                      ELSE [k \in Situations |-> Undef]
       IN  [ok |-> TRUE, item |-> itemText,
            results |-> [k \in Situations |-> cleaned(results[k])]]

\* A parsed oracle payload: kind "empty" is a response without content,
\* "invalid" one JSON.parse rejects, "null" one that parses to a non-object,
\* "object" an object whose results member is an object iff hasResults.
\* ok = FALSE stands for the thrown Error.
normalizeAlternativesResponse(payload, itemText) ==
  IF payload.kind # "object"
  THEN [ok |-> FALSE, item |-> itemText, results |-> emptyAlternativeResults]
  ELSE LET results == IF payload.hasResults THEN payload.results
                      ELSE [k \in Situations |-> Undef]
       IN  IF \E k \in Situations : cleaned(results[k]) = <<>>
           THEN [ok |-> FALSE, item |-> itemText, results |-> emptyAlternativeResults]
           ELSE [ok |-> TRUE, item |-> itemText,
                 results |-> [k \in Situations |-> cleaned(results[k])]]

\* alternativeSchema: item and alternative_text are declared trim: true, which
\* Mongoose applies when a document is cast and when a query filter is cast
CastItem(item) == trim(item)

CastAlternative(doc) ==
  [doc EXCEPT !.item = trim(doc.item), !.alternative_text = trim(doc.alternative_text)]

\* Alternative.find without its item filter
FindAlternativesAnyItem(store, item) == store

\* Alternative.find({ item }): the stored documents of an item, in natural order
RECURSIVE FindAlternatives(_, _)
FindAlternatives(store, item) ==
  IF store = <<>> THEN <<>>
  ELSE (IF Head(store).item = CastItem(item) THEN <<Head(store)>> ELSE <<>>)
       \o FindAlternatives(Tail(store), item)

\* one step of .sort({ timestamp: 1 }): documents of equal timestamp (one
\* batch) keep their natural order
RECURSIVE InsertByTimestamp(_, _)
InsertByTimestamp(sorted, doc) ==
  IF sorted = <<>> THEN <<doc>>
  ELSE IF Head(sorted).timestamp <= doc.timestamp
       THEN <<Head(sorted)>> \o InsertByTimestamp(Tail(sorted), doc)
       ELSE <<doc>> \o sorted

RECURSIVE SortByTimestamp(_)
SortByTimestamp(docs) ==
  IF docs = <<>> THEN <<>>
  ELSE InsertByTimestamp(SortByTimestamp(SubSeq(docs, 1, Len(docs) - 1)), docs[Len(docs)])

\* docs.forEach of aggregateAlternatives: push unless results[situation].includes(text)
RECURSIVE GroupDocs(_, _)
GroupDocs(docs, results) ==
  IF docs = <<>> THEN results
  ELSE LET doc == Head(docs)
       IN  IF doc.situation \notin Situations
              \/ doc.alternative_text \in Range(results[doc.situation])
           THEN GroupDocs(Tail(docs), results)
           ELSE GroupDocs(Tail(docs),
                  [results EXCEPT ![doc.situation] = Append(@, doc.alternative_text)])

\* an aggregate of the newest batch only
aggregateLatestBatch(store, item) ==
  LET found == FindAlternatives(store, trim(item))
      latest == [i \in DOMAIN found |-> \A j \in DOMAIN found : found[j].timestamp <= found[i].timestamp]
      RECURSIVE Keep(_)
      Keep(i) == IF i > Len(found) THEN <<>>
                 ELSE (IF latest[i] THEN <<found[i]>> ELSE <<>>) \o Keep(i + 1)
  IN  [item |-> trim(item), results |-> GroupDocs(Keep(1), emptyAlternativeResults)]

aggregateAlternatives(store, item) ==
  LET normalizedItem == trim(item)
  IN  IF normalizedItem = <<>>
      THEN [item |-> item, results |-> emptyAlternativeResults]
      ELSE [item |-> normalizedItem,
            results |-> GroupDocs(SortByTimestamp(FindAlternatives(store, normalizedItem)),
                                  emptyAlternativeResults)]

\* the stored texts per situation, not lower-cased
existingBySituationCaseSensitive(existingDocs) ==
  [k \in Situations |->
     {existingDocs[i].alternative_text :
        i \in {j \in DOMAIN existingDocs : existingDocs[j].situation = k}} \ {<<>>}]

\* existingDocs.reduce(...): per situation the lower-cased stored texts
existingBySituation(existingDocs) ==
  [k \in Situations |->
     {toLowerCase(existingDocs[i].alternative_text) :
        i \in {j \in DOMAIN existingDocs : existingDocs[j].situation = k}} \ {<<>>}]

\* AI_SITUATION_KEYS.flatMap(...): one document per cleaned text
RECURSIVE BuildDocs(_, _, _)
BuildDocs(keys, normalized, timestamp) ==
  IF keys = <<>> THEN <<>>
  ELSE [i \in 1..Len(normalized.results[Head(keys)]) |->
          [item |-> normalized.item, situation |-> Head(keys),
           alternative_text |-> normalized.results[Head(keys)][i],
           timestamp |-> timestamp]]
       \o BuildDocs(Tail(keys), normalized, timestamp)

\* docs.filter(...) with a Set that does not grow with the kept texts
RECURSIVE FilterNovelNoBatchUpdate(_, _)
FilterNovelNoBatchUpdate(docs, existing) ==
  IF docs = <<>> THEN <<>>
  ELSE LET value == toLowerCase(Head(docs).alternative_text)
       IN  IF value = <<>> \/ value \in existing[Head(docs).situation]
           THEN FilterNovelNoBatchUpdate(Tail(docs), existing)
           ELSE <<Head(docs)>> \o FilterNovelNoBatchUpdate(Tail(docs), existing)

\* docs.filter(...) with the Set as it grows: a text is kept when its lower
\* case is in neither the stored set nor an earlier kept text of the batch
RECURSIVE FilterNovel(_, _)
FilterNovel(docs, existing) ==
  IF docs = <<>> THEN <<>>
  ELSE LET value == toLowerCase(Head(docs).alternative_text)
       IN  IF value = <<>> \/ value \in existing[Head(docs).situation]
           THEN FilterNovel(Tail(docs), existing)
           ELSE <<Head(docs)>>
                \o FilterNovel(Tail(docs),
                     [existing EXCEPT ![Head(docs).situation] = @ \cup {value}])

\* an insert that skips a text the pair already holds
RECURSIVE insertManySkipStored(_, _)
insertManySkipStored(store, docs) ==
  IF docs = <<>> THEN store
  ELSE IF \E i \in DOMAIN store :
            /\ store[i].item = CastItem(Head(docs).item)
            /\ store[i].situation = Head(docs).situation
            /\ toLowerCase(store[i].alternative_text) = toLowerCase(trim(Head(docs).alternative_text))
       THEN insertManySkipStored(store, Tail(docs))
       ELSE insertManySkipStored(Append(store, CastAlternative(Head(docs))), Tail(docs))

\* Alternative.insertMany: the cast documents are appended in order
insertMany(store, docs) ==
  store \o [i \in DOMAIN docs |-> CastAlternative(docs[i])]

\* a deleteMany that removes only the oldest record of the item
RECURSIVE deleteManyOldest(_, _)
deleteManyOldest(store, item) ==
  IF store = <<>> THEN <<>>
  ELSE IF Head(store).item = CastItem(item) THEN Tail(store)
  ELSE <<Head(store)>> \o deleteManyOldest(Tail(store), item)

\* Alternative.deleteMany({ item })
RECURSIVE deleteMany(_, _)
deleteMany(store, item) ==
  IF store = <<>> THEN <<>>
  ELSE (IF Head(store).item = CastItem(item) THEN <<>> ELSE <<Head(store)>>)
       \o deleteMany(Tail(store), item)

\* a summary grouped by situation instead of item
summaryBySituation(store) ==
  [k \in {store[j].situation : j \in DOMAIN store} |->
     Cardinality({j \in DOMAIN store : store[j].situation = k})]

\* a summary that counts an item's distinct texts instead of its records
summaryDistinctTexts(store) ==
  [i \in {store[j].item : j \in DOMAIN store} |->
     Cardinality({store[j].alternative_text : j \in {n \in DOMAIN store : store[n].item = i}})]

\* $group by item with count: { $sum: 1 }, reduced to an object keyed by item
summary(store) ==
  [i \in {store[j].item : j \in DOMAIN store} |->
     Cardinality({j \in DOMAIN store : store[j].item = i})]

(***************************************************************************)
(* Inputs of the alternatives endpoints.                                   *)
(***************************************************************************)
ta == <<"a">>
tA == <<"A">>
tb == <<"b">>
tx == <<"x">>
tX == <<"X">>

\* request bodies' item
ItemInputs == {tx, <<" ", "x">>, tX, <<" ">>}

\* the item of the requests that overlap: the term of entry 1, untrimmed
OverlapItemInputs == {<<" ", "x">>}

\* what the oracle may put under one situation key: one text; texts that
\* repeat up to case and blanks, more than the cap; a bare string; nothing
\* usable; no member at all
SituationValues ==
  { Arr(<<Str(ta)>>),
    Arr(<<Str(<<"A", " ">>), Str(<<" ">>), Str(ta), Str(tb), Str(<<"a", "b">>)>>),
    Str(<<" ", "b">>),
    Arr(<<Str(<<" ">>), Num>>),
    Undef }

\* the situation whose value may differ from the others in one response
OddSituation == "arbeit"

\* what the other situations hold
RestValues ==
  { Arr(<<Str(ta)>>),
    Arr(<<Str(<<"A", " ">>), Str(<<" ">>), Str(ta), Str(tb), Str(<<"a", "b">>)>>) }

\* the oracle's answers to a generate request: the call rejects ("error"),
\* or resolves with no content, with text that is not JSON, with JSON that is
\* not an object, with an object without results, or with results that give
\* one value to the odd situation and another to the rest
AlternativePayloads ==
  { [kind |-> k, hasResults |-> FALSE, results |-> [s \in Situations |-> Undef]] :
      k \in {"error", "empty", "invalid", "null", "object"} }
  \cup
  { [kind |-> "object", hasResults |-> TRUE,
     results |-> [s \in Situations |-> IF s = OddSituation THEN w ELSE v]] :
      v \in RestValues, w \in SituationValues }

\* a value holds a text: it is, or contains, a string with a non-blank character
HasText(value) ==
  \/ value.t = "str" /\ \E i \in DOMAIN value.s : value.s[i] # " "
  \/ value.t = "arr" /\ \E i \in DOMAIN value.a :
        value.a[i].t = "str" /\ \E j \in DOMAIN value.a[i].s : value.a[i].s[j] # " "

\* the response is empty, unparseable or leaves a situation without text
BadPayload(payload) ==
  \/ payload.kind # "object"
  \/ ~payload.hasResults
  \/ \E k \in Situations : ~HasText(payload.results[k])

(***************************************************************************)
(* State.                                                                  *)
(***************************************************************************)
\* the editor form before anything is typed
emptyForm ==
  [term |-> <<>>, definition |-> <<>>, example |-> <<>>, synonyms |-> <<>>,
   partOfSpeech |-> <<>>, article |-> <<>>]

\* reviewData.term when the review failed or was not run (ok: a review
\* result was received)
NoReview ==
  [ok |-> FALSE, corrected |-> Null, suggestions |-> <<>>, lemma |-> Null,
   partOfSpeech |-> <<>>, article |-> Null]

\* no completeWithAi call is running (pc); a running one holds its locals
\* and the number of oracle calls its requests led to
IdleAi ==
  [pc |-> "idle", focusedField |-> "none", closure |-> emptyForm,
   reviewFieldValue |-> <<>>, oracleCalls |-> 0]

\* the last step held no ai-complete exchange
NoCompletion ==
  [status |-> 0, body |-> emptyForm, parsed |-> emptyForm, result |-> emptyForm,
   before |-> emptyForm, focusedField |-> "none", kind |-> "none"]

VARIABLES
  openai,        \* OPENAI_API_KEY is configured (the client object exists)
  entries,       \* the Entry collection: _id -> document
  alternatives,  \* the Alternative collection, in natural (insertion) order
  now,           \* the clock read by new Date()
  calls,         \* the generate requests in flight: position and locals
  oracleCalls,   \* number of openai.chat.completions.create calls issued
  resp,          \* the response sent by the last step (op = "none": none)
  lastOk,        \* the coerced oracle response of the last successful
                 \* generate, while no deleteAll ran for its item since
  lastAgg,       \* the last aggregate returned by GET, while no insert or
                 \* deleteAll ran for its item since
  adminPassword, \* ADMIN_PASSWORD (Undef: not configured)
  cookie,        \* the browser holds the cookie duden_auth=1
  nextId,        \* the _id the next created entry gets
  stripsUndefined, \* the installed Mongoose removes undefined keys from an
                 \* update (6 and later) instead of writing null (5)
  form,          \* the editor form of the web client
  lastFocusedField, \* lastFocusedField.current ("none": null)
  isLoggedIn,    \* the client believes it is signed in
  aiStatus,      \* "idle", "loading", "success" or "error"
  lemmaSuggestions, \* the lemma suggestions offered under the form
  reviewResult,  \* reviewResult.term (NoReview: null)
  ai,            \* the running completeWithAi call: position and locals
  completion     \* the ai-complete exchange of the last step: request, oracle
                 \* object, response, and the form it met (status 0: none)

\* what the alternatives endpoints leave alone, and what the entry endpoints do
clientVars == <<form, lastFocusedField, isLoggedIn, aiStatus, lemmaSuggestions,
                reviewResult, ai, completion>>
nonAltVars == <<adminPassword, cookie, nextId, stripsUndefined, openai, entries, clientVars>>
nonEntryVars == <<adminPassword, stripsUndefined, openai, alternatives, now, calls,
                  oracleCalls, lastOk, lastAgg, clientVars>>
clientIdle ==
  /\ form = emptyForm
  /\ lastFocusedField = "none"
  /\ aiStatus = "idle"
  /\ lemmaSuggestions = <<>>
  /\ reviewResult = NoReview
  /\ ai = IdleAi
  /\ completion = NoCompletion

vars == <<openai, entries, alternatives, now, calls, oracleCalls, resp, lastOk, lastAgg,
          adminPassword, cookie, nextId, stripsUndefined, clientVars>>

CallIds == 1..MaxCalls

NoResults == [ok |-> FALSE, item |-> <<>>, results |-> emptyAlternativeResults]

IdleCall ==
  [pc |-> "idle", itemText |-> <<>>, bad |-> FALSE, normalized |-> NoResults,
   timestamp |-> 0, toInsert |-> <<>>, deletedSince |-> FALSE]

\* the body of an answered AI request: the four fields of a review or
\* completion request, or the item of a generate request
NoRequest ==
  [term |-> Undef, definition |-> Undef, example |-> Undef, synonyms |-> Undef,
   item |-> Undef]

\* bad: the oracle payload of the answered generate request was a bad one;
\* again: the answered GET follows an earlier GET of the same item with no
\* insert or deleteAll for the item between them; request: the body of the
\* answered review or completion request, or of a refused generate request
NoResp ==
  [op |-> "none", status |-> 0, body |-> NoResults, summary |-> <<>>, bad |-> FALSE,
   again |-> FALSE, request |-> NoRequest]

Response(op, status, body) == [NoResp EXCEPT !.op = op, !.status = status, !.body = body]

Body(aggregated) == [ok |-> TRUE, item |-> aggregated.item, results |-> aggregated.results]

\* the ghost is dropped when the store changes for its item
Forget(ghost, item) == IF ghost.ok /\ CastItem(ghost.item) = CastItem(item) THEN NoResults ELSE ghost

(***************************************************************************)
(* POST /api/entries/ai-alternatives (generate).  The handler awaits the   *)
(* oracle, the read of the stored records, the batch insert and the        *)
(* aggregate read; other requests run between these steps.                 *)
(***************************************************************************)
\* lines 339-360: configuration and item checks, then the oracle call is issued;
\* c is the first free slot of the model's table of requests in flight
GenerateRequest(c, itemText) ==
  /\ calls[c].pc = "idle"
  /\ \A d \in CallIds : d < c => calls[d].pc # "idle"
  /\ IF ~openai \/ trim(itemText) = <<>>
     THEN /\ resp' = [Response("generate", 400, NoResults) EXCEPT
                            !.request = [NoRequest EXCEPT !.item = Str(itemText)]]
          /\ UNCHANGED <<calls, oracleCalls>>
     ELSE /\ oracleCalls < MaxOracleCalls
          /\ calls' = [calls EXCEPT ![c] =
                         [IdleCall EXCEPT !.pc = "oracle", !.itemText = itemText]]
          /\ oracleCalls' = oracleCalls + 1
          /\ resp' = NoResp
  /\ UNCHANGED <<nonAltVars, alternatives, now, lastOk, lastAgg>>

\* lines 362-371 and 404-407: the oracle answered; parse, coerce, stamp and
\* issue the read of the stored records, or answer 502
OracleReturn(c, payload) ==
  /\ calls[c].pc = "oracle"
  /\ LET normalized == normalizeAlternativesResponse(payload, calls[c].itemText)
     IN  IF payload.kind \in {"error", "empty", "invalid"} \/ ~normalized.ok
         THEN /\ calls' = [calls EXCEPT ![c] = IdleCall]
              /\ resp' = [Response("generate", 502, NoResults) EXCEPT
                            !.bad = BadPayload(payload)]
              /\ UNCHANGED now
         ELSE /\ calls' = [calls EXCEPT ![c] =
                             [@ EXCEPT !.pc = "find", !.bad = BadPayload(payload),
                                       !.normalized = normalized, !.timestamp = now]]
              /\ now' = now + 1
              /\ resp' = NoResp
  /\ UNCHANGED <<nonAltVars, alternatives, oracleCalls, lastOk, lastAgg>>

\* lines 371-402: the stored records arrived; select the novel documents and
\* issue the batch insert, or the aggregate read when there is none
FindReturn(c) ==
  /\ calls[c].pc = "find"
  /\ LET normalized == calls[c].normalized
         existingDocs == FindAlternatives(alternatives, normalized.item)
         docs == BuildDocs(AI_SITUATION_KEYS, normalized, calls[c].timestamp)
         toInsert == FilterNovel(docs, existingBySituation(existingDocs))
     IN  calls' = [calls EXCEPT ![c] =
                     [@ EXCEPT !.pc = IF Len(toInsert) > 0 THEN "insert" ELSE "aggregate",
                               !.toInsert = toInsert]]
  /\ resp' = NoResp
  /\ UNCHANGED <<nonAltVars, alternatives, now, oracleCalls, lastOk, lastAgg>>

\* lines 400-402: insertMany took effect; the aggregate read is issued
InsertDone(c) ==
  /\ calls[c].pc = "insert"
  /\ alternatives' = insertMany(alternatives, calls[c].toInsert)
  /\ calls' = [calls EXCEPT ![c] = [@ EXCEPT !.pc = "aggregate"]]
  /\ lastAgg' = Forget(lastAgg, calls[c].normalized.item)
  /\ resp' = NoResp
  /\ UNCHANGED <<nonAltVars, now, oracleCalls, lastOk>>

\* lines 402-403 with 323-337: the aggregate is read and returned
AggregateReturn(c) ==
  /\ calls[c].pc = "aggregate"
  /\ resp' = Response("generate", 200,
                      Body(aggregateAlternatives(alternatives, calls[c].normalized.item)))
  /\ calls' = [calls EXCEPT ![c] = IdleCall]
  /\ lastOk' = IF calls[c].deletedSince THEN Forget(lastOk, calls[c].normalized.item)
               ELSE [calls[c].normalized EXCEPT !.item = CastItem(@)]
  /\ UNCHANGED <<nonAltVars, alternatives, now, oracleCalls, lastAgg>>

(***************************************************************************)
(* The endpoints keyed by entry id, and the summary.                       *)
(***************************************************************************)
\* GET /api/entries/:id/ai-alternatives
GetAlternatives(id) ==
  /\ IF id \notin DOMAIN entries
     THEN /\ resp' = Response("aggregate", 404, NoResults)
          /\ UNCHANGED lastAgg
     ELSE LET body == Body(aggregateAlternatives(alternatives, entries[id].term))
          IN  /\ resp' = [Response("aggregate", 200, body) EXCEPT
                            !.again = lastAgg.ok /\ lastAgg.item = body.item]
              /\ lastAgg' = body
  /\ UNCHANGED <<nonAltVars, alternatives, now, calls, oracleCalls, lastOk>>

\* DELETE /api/entries/:id/ai-alternatives (deleteAll)
DeleteAlternatives(id) ==
  /\ IF id \notin DOMAIN entries
     THEN /\ resp' = Response("deleteAll", 404, NoResults)
          /\ UNCHANGED <<alternatives, calls, lastOk, lastAgg>>
     ELSE LET item == entries[id].term
          IN  /\ alternatives' = deleteMany(alternatives, item)
              /\ resp' = Response("deleteAll", 200,
                            [ok |-> TRUE, item |-> item, results |-> emptyAlternativeResults])
              /\ calls' = [c \in CallIds |->
                             IF calls[c].pc \in {"insert", "aggregate"}
                                /\ CastItem(calls[c].normalized.item) = CastItem(item)
                             THEN [calls[c] EXCEPT !.deletedSince = TRUE]
                             ELSE calls[c]]
              /\ lastOk' = Forget(lastOk, item)
              /\ lastAgg' = Forget(lastAgg, item)
  /\ UNCHANGED <<nonAltVars, now, oracleCalls>>

\* GET /api/entries/ai-alternatives/summary
GetSummary ==
  /\ resp' = [Response("summary", 200, NoResults) EXCEPT !.summary = summary(alternatives)]
  /\ UNCHANGED <<nonAltVars, alternatives, now, calls, oracleCalls, lastOk, lastAgg>>

(***************************************************************************)
(* Specifications of the alternatives cache.                               *)
(***************************************************************************)
AltEntryIds == {1, 2, 3}

\* two stored entries (terms x and X, created by two POST /api/entries); id 3
\* names no entry
StoredEntries ==
  [id \in {1, 2} |->
     [term |-> IF id = 1 THEN tx ELSE tX, definition |-> ta,
      example |-> Undef, synonyms |-> Undef, partOfSpeech |-> <<>>, article |-> Undef]]

Init ==
  /\ openai \in BOOLEAN
  /\ entries = StoredEntries
  /\ alternatives = <<>>
  /\ now = 0
  /\ calls = [c \in CallIds |-> IdleCall]
  /\ oracleCalls = 0
  /\ resp = NoResp
  /\ lastOk = NoResults
  /\ lastAgg = NoResults
  /\ adminPassword = Str(<<"p">>)
  /\ cookie = FALSE
  /\ nextId = 3
  /\ stripsUndefined = TRUE
  /\ isLoggedIn = FALSE
  /\ clientIdle

\* requests overlap: up to MaxCalls generate requests are in flight, and the
\* one-step requests run between their steps
Next ==
  \/ \E c \in CallIds, itemText \in OverlapItemInputs : GenerateRequest(c, itemText)
  \/ \E c \in CallIds, payload \in AlternativePayloads : OracleReturn(c, payload)
  \/ \E c \in CallIds : FindReturn(c)
  \/ \E c \in CallIds : InsertDone(c)
  \/ \E c \in CallIds : AggregateReturn(c)
  \/ \E id \in AltEntryIds : GetAlternatives(id)
  \/ \E id \in AltEntryIds : DeleteAlternatives(id)
  \/ GetSummary

Spec == Init /\ [][Next]_vars

\* no request is in flight
Quiet == \A c \in CallIds : calls[c].pc = "idle"

\* requests are executed one at a time: a request starts when none is in flight
SeqNext ==
  \/ Quiet /\ \E itemText \in ItemInputs : GenerateRequest(1, itemText)
  \/ \E payload \in AlternativePayloads : OracleReturn(1, payload)
  \/ FindReturn(1)
  \/ InsertDone(1)
  \/ AggregateReturn(1)
  \/ Quiet /\ \E id \in AltEntryIds : GetAlternatives(id)
  \/ Quiet /\ \E id \in AltEntryIds : DeleteAlternatives(id)
  \/ Quiet /\ GetSummary

SeqSpec == Init /\ [][SeqNext]_vars

(***************************************************************************)
(* Properties of the alternatives cache.                                   *)
(***************************************************************************)
\* equal under case-insensitive comparison
SameText(s, t) ==
  /\ Len(s) = Len(t)
  /\ \A i \in DOMAIN s : s[i] = t[i] \/ UpperChar(s[i]) = t[i] \/ s[i] = UpperChar(t[i])

\* two stored records of one (item, situation) pair have the same text
HasDuplicate(store) ==
  \E i \in DOMAIN store, j \in DOMAIN store :
    /\ i < j
    /\ store[i].item = store[j].item
    /\ store[i].situation = store[j].situation
    /\ SameText(store[i].alternative_text, store[j].alternative_text)

\* a list holds two texts that are the same
ListRepeats(list) ==
  \E i \in DOMAIN list, j \in DOMAIN list : i < j /\ SameText(list[i], list[j])

\* the documents stored for an item
StoredFor(store, item) == {d \in Range(store) : d.item = item}

\* C2: when generate requests run one at a time, the stored records of every
\* (item, situation) pair have pairwise distinct texts, case-insensitively
C2_StoredTextsDistinct == ~HasDuplicate(alternatives)

\* a request whose oracle response repeats a text within one situation, one
\* of whose texts is stored in another letter case, has selected its documents
C2_Witness ==
  /\ calls[1].pc = "aggregate"
  /\ \E k \in Situations : ListRepeats(calls[1].normalized.results[k])
  /\ \E d \in StoredFor(alternatives, CastItem(calls[1].normalized.item)) :
       /\ d.timestamp < calls[1].timestamp
       /\ \E t \in Range(calls[1].normalized.results[d.situation]) :
            t # d.alternative_text /\ SameText(t, d.alternative_text)

\* a request about to insert a text that another request stored meanwhile
StoredMeanwhile(c) ==
  \E i \in DOMAIN calls[c].toInsert, j \in DOMAIN alternatives :
    /\ alternatives[j].item = CastItem(calls[c].toInsert[i].item)
    /\ alternatives[j].situation = calls[c].toInsert[i].situation
    /\ SameText(alternatives[j].alternative_text, calls[c].toInsert[i].alternative_text)

\* C3: a generate request that read the store before an overlapping request
\* inserted a text inserts that text too: the pair then holds it twice
C3_BothInsert ==
  [][\A c \in CallIds :
       (calls[c].pc = "insert" /\ calls'[c].pc = "aggregate" /\ StoredMeanwhile(c))
         => HasDuplicate(alternatives')]_vars

\* one (item, situation) pair holds two records with the same text
C3_Witness == HasDuplicate(alternatives)

\* C4: no list returned by aggregate holds two texts that are equal under
\* case-insensitive comparison
C4_AggregateDistinct ==
  (resp.op \in {"aggregate", "generate"} /\ resp.status = 200)
    => \A k \in Situations : ~ListRepeats(resp.body.results[k])

\* every text of the coerced oracle response is in the returned lists
ReturnsResponseTexts(c, body) ==
  \A k \in Situations : \A t \in Range(calls[c].normalized.results[k]) :
    \E u \in Range(body.results[k]) : SameText(t, u)

\* every text stored for the item is in the returned lists
ReturnsStoredTexts(c, body) ==
  \A d \in StoredFor(alternatives, CastItem(calls[c].normalized.item)) :
    d.alternative_text \in Range(body.results[d.situation])

\* C5 as stated: the aggregate a successful generate returns holds every
\* stored text of the item and every text of the current oracle response
C5_ReturnsAll ==
  [][\A c \in CallIds :
       (calls[c].pc = "aggregate" /\ calls'[c].pc = "idle")
         => /\ resp'.op = "generate" /\ resp'.status = 200
            /\ ReturnsStoredTexts(c, resp'.body)
            /\ ReturnsResponseTexts(c, resp'.body)]_vars

\* C5 amended: the texts of the current oracle response are returned unless a
\* deleteAll for the item took effect after the request read the stored records
C5_ReturnsAllUnlessDeleted ==
  [][\A c \in CallIds :
       (calls[c].pc = "aggregate" /\ calls'[c].pc = "idle")
         => /\ resp'.op = "generate" /\ resp'.status = 200
            /\ ReturnsStoredTexts(c, resp'.body)
            /\ ~calls[c].deletedSince => ReturnsResponseTexts(c, resp'.body)]_vars

\* a generate answered with a text that its own oracle response does not hold
C5_Witness ==
  /\ resp.op = "generate" /\ resp.status = 200
  /\ lastOk.ok /\ lastOk.item = resp.body.item
  /\ \E k \in Situations : \E u \in Range(resp.body.results[k]) :
       \A t \in Range(lastOk.results[k]) : ~SameText(t, u)

\* C6: a generate whose oracle response is empty, unparseable or leaves a
\* situation without text is answered 502 and leaves the store as it was
C6_BadResponseStoresNothing ==
  [][/\ \A c \in CallIds : calls'[c].pc \in {"find", "insert", "aggregate"} => ~calls'[c].bad
     /\ (resp'.op = "generate" /\ resp'.bad)
          => (resp'.status = 502 /\ alternatives' = alternatives)]_vars

\* a bad oracle response was answered while records are stored
C6_Witness ==
  resp.op = "generate" /\ resp.bad /\ resp.status = 502 /\ alternatives # <<>>

\* the request's coerced oracle response is that of the last successful
\* generate for the same item
SameAsLast(c) ==
  /\ calls[c].pc \in {"find", "insert", "aggregate"}
  /\ lastOk.ok
  /\ lastOk.item = CastItem(calls[c].normalized.item)
  /\ lastOk.results = calls[c].normalized.results

\* C7: a second generate with the oracle output of the first inserts nothing:
\* records and summary stay as they are
C7_SecondChangesNothing ==
  [][\A c \in CallIds :
       SameAsLast(c) => /\ calls'[c].pc # "insert"
                        /\ alternatives' = alternatives
                        /\ summary(alternatives') = summary(alternatives)]_vars

\* the second request has selected its (no) documents, records being stored
C7_Witness ==
  /\ calls[1].pc = "aggregate" /\ SameAsLast(1)
  /\ \E k \in Situations : ListRepeats(calls[1].normalized.results[k])
  /\ alternatives # <<>>

\* C8: aggregate leaves the store alone and repeats its result while no
\* insert or deleteAll ran for the item
C8_AggregateRepeats ==
  [][(resp'.op = "aggregate" /\ resp'.status = 200)
       => /\ alternatives' = alternatives
          /\ (lastAgg.ok /\ lastAgg.item = resp'.body.item) => resp'.body = lastAgg]_vars

\* a second aggregate of an item with stored records was answered
C8_Witness ==
  /\ resp.op = "aggregate" /\ resp.status = 200 /\ resp.again
  /\ \E k \in Situations : Len(resp.body.results[k]) > 1

(***************************************************************************)
(* The entry store: login, create, update, delete.                         *)
(***************************************************************************)
\* entrySchema: a String path declared trim: true is trimmed when cast
CastText(value) == IF value.t = "str" THEN Str(trim(value.s)) ELSE value

\* a key given as undefined in an update: removed from the update by
\* Mongoose 6 and later (the stored value stays), written as null by Mongoose 5
SetOrKeep(old, value) ==
  IF value.t = "undef" THEN (IF stripsUndefined THEN old ELSE Null) ELSE CastText(value)

\* a unique index that compares the term as sent, untrimmed
TermTakenUntrimmed(term, except) ==
  \E other \in DOMAIN entries : other # except /\ entries[other].term = term.s

\* another document holds the term: the unique index rejects the write (11000)
TermTaken(term, except) ==
  \E other \in DOMAIN entries : other # except /\ entries[other].term = trim(term.s)

\* requireAuth
Authorized == cookie

\* the status POST /api/auth/login answers with
loginStatus(password) ==
  IF Falsy(password) \/ password # adminPassword THEN 401 ELSE 200

\* POST /api/auth/login
Login(password) ==
  /\ resp' = Response("login", loginStatus(password), NoResults)
  /\ cookie' = IF loginStatus(password) = 200 THEN TRUE ELSE cookie
  /\ UNCHANGED <<nonEntryVars, entries, nextId>>

\* POST /api/auth/logout
Logout ==
  /\ cookie' = FALSE
  /\ resp' = Response("logout", 200, NoResults)
  /\ UNCHANGED <<nonEntryVars, entries, nextId>>

\* POST /api/entries
CreateEntry(body) ==
  LET morph == validateMorphology(body.partOfSpeech, body.article)
  IN  /\ IF ~Authorized
         THEN resp' = Response("create", 401, NoResults) /\ UNCHANGED <<entries, nextId>>
         ELSE IF Falsy(body.term) \/ Falsy(body.definition) \/ morph.error
         THEN resp' = Response("create", 400, NoResults) /\ UNCHANGED <<entries, nextId>>
         ELSE IF trim(body.term.s) = <<>> \/ trim(body.definition.s) = <<>>
         THEN \* the required validator rejects the trimmed empty string
              resp' = Response("create", 500, NoResults) /\ UNCHANGED <<entries, nextId>>
         ELSE IF TermTaken(body.term, 0)
         THEN resp' = Response("create", 409, NoResults) /\ UNCHANGED <<entries, nextId>>
         ELSE /\ nextId <= MaxEntries
              /\ entries' = [id \in DOMAIN entries \cup {nextId} |->
                               IF id = nextId
                               THEN [term |-> trim(body.term.s),
                                     definition |-> trim(body.definition.s),
                                     example |-> CastText(body.example),
                                     synonyms |-> CastText(body.synonyms),
                                     partOfSpeech |-> morph.partOfSpeech,
                                     article |-> morph.article]
                               ELSE entries[id]]
              /\ nextId' = nextId + 1
              /\ resp' = Response("create", 201, NoResults)
      /\ UNCHANGED <<nonEntryVars, cookie>>

\* PUT /api/entries/:id
UpdateEntry(id, body) ==
  LET morph == validateMorphology(body.partOfSpeech, body.article)
  IN  /\ IF ~Authorized
         THEN resp' = Response("update", 401, NoResults) /\ UNCHANGED entries
         ELSE IF Falsy(body.term) \/ Falsy(body.definition) \/ morph.error
         THEN resp' = Response("update", 400, NoResults) /\ UNCHANGED entries
         ELSE IF trim(body.term.s) = <<>> \/ trim(body.definition.s) = <<>>
         THEN \* runValidators: the required validator rejects the update
              resp' = Response("update", 500, NoResults) /\ UNCHANGED entries
         ELSE IF id \notin DOMAIN entries
         THEN resp' = Response("update", 404, NoResults) /\ UNCHANGED entries
         ELSE IF TermTaken(body.term, id)
         THEN resp' = Response("update", 409, NoResults) /\ UNCHANGED entries
         ELSE /\ entries' = [entries EXCEPT ![id] =
                               [term |-> trim(body.term.s),
                                definition |-> trim(body.definition.s),
                                example |-> SetOrKeep(@.example, body.example),
                                synonyms |-> SetOrKeep(@.synonyms, body.synonyms),
                                partOfSpeech |-> morph.partOfSpeech,
                                article |-> SetOrKeep(@.article, morph.article)]]
              /\ resp' = Response("update", 200, NoResults)
      /\ UNCHANGED <<nonEntryVars, cookie, nextId>>

\* DELETE /api/entries/:id
DeleteEntry(id) ==
  /\ IF ~Authorized
     THEN resp' = Response("delete", 401, NoResults) /\ UNCHANGED entries
     ELSE IF id \notin DOMAIN entries
     THEN resp' = Response("delete", 404, NoResults) /\ UNCHANGED entries
     ELSE /\ entries' = [other \in DOMAIN entries \ {id} |-> entries[other]]
          /\ resp' = Response("delete", 200, NoResults)
  /\ UNCHANGED <<nonEntryVars, cookie, nextId>>

(***************************************************************************)
(* Specification of the entry store.                                       *)
(***************************************************************************)
tt == <<"t">>
tu == <<"u">>

\* the ids a request may name
EntryIds == 1..MaxEntries

PasswordInputs == {Undef, Str(<<"p">>), Str(<<"q">>)}

PosInputs ==
  { Undef,
    Str(<<" ", "N", "o", "u", "n">>),
    Arr(<<Str(<<"x">>), Num, Str(verb), Str(<<"V", "e", "r", "b">>), Str(noun)>>) }

ArticleInputs == {Undef, Str(<<"D", "i", "e", " ">>), Str(<<"x">>)}

\* request bodies of create and update: term and definition given, with every
\* part of speech and article; and the bodies that lack or blank a required field
EntryBodies ==
  { [term |-> Str(t), definition |-> Str(ta), example |-> e, synonyms |-> e,
     partOfSpeech |-> p, article |-> a] :
      t \in {tt, <<"t", " ">>, tu}, e \in {Undef, Str(<<"b", " ">>)},
      p \in PosInputs, a \in ArticleInputs }
  \cup
  { [term |-> t, definition |-> d, example |-> Undef, synonyms |-> Undef,
     partOfSpeech |-> Str(noun), article |-> Str(der)] :
      t \in {Undef, Str(<<>>), Str(<<" ">>), Str(tt)}, d \in {Undef, Str(ta)} }

EntryInit ==
  /\ openai = TRUE
  /\ entries = <<>>
  /\ alternatives = <<>>
  /\ now = 0
  /\ calls = [c \in CallIds |-> IdleCall]
  /\ oracleCalls = 0
  /\ resp = NoResp
  /\ lastOk = NoResults
  /\ lastAgg = NoResults
  /\ adminPassword = Str(<<"p">>)
  /\ cookie = FALSE
  /\ nextId = 1
  /\ stripsUndefined \in BOOLEAN
  /\ isLoggedIn = FALSE
  /\ clientIdle

EntryNext ==
  \/ \E password \in PasswordInputs : Login(password)
  \/ Logout
  \/ \E body \in EntryBodies : CreateEntry(body)
  \/ \E id \in EntryIds, body \in EntryBodies : UpdateEntry(id, body)
  \/ \E id \in EntryIds : DeleteEntry(id)

EntrySpec == EntryInit /\ [][EntryNext]_vars

\* C1: every stored entry has an article exactly when it is a noun
C1_NounIffArticle ==
  \A id \in DOMAIN entries :
    (noun \in Range(entries[id].partOfSpeech))
      <=> (entries[id].article.t = "str" /\ entries[id].article.s \in Articles)

(***************************************************************************)
(* AI completion and review: the server's answers.                         *)
(***************************************************************************)
\* the response body of POST /api/entries/ai-complete (lines 202-209): body
\* is the request, parsed the oracle's JSON object
aiCompleteResult(body, parsed) ==
  [term |-> Coalesce(parsed.term, Coalesce(body.term, Str(<<>>))),
   definition |-> Coalesce(parsed.definition, Coalesce(body.definition, Str(<<>>))),
   example |-> Coalesce(parsed.example, Coalesce(body.example, Str(<<>>))),
   synonyms |-> Coalesce(parsed.synonyms, Coalesce(body.synonyms, Str(<<>>))),
   partOfSpeech |-> normalizePartOfSpeech(Coalesce(parsed.partOfSpeech, body.partOfSpeech)),
   article |-> Coalesce(parsed.article, Coalesce(body.article, Str(<<>>)))]

\* an ai-complete that refuses no body for its content
aiCompleteGuardAnyBody(body) ==
  IF adminPassword = Undef THEN 400
  ELSE IF ~Authorized THEN 401
  ELSE IF ~openai THEN 400
  ELSE 0

\* the status of POST /api/entries/ai-complete before the oracle is called
\* (lines 153-169); 0: the oracle is called
aiCompleteGuard(body) ==
  IF adminPassword = Undef THEN 400
  ELSE IF ~Authorized THEN 401
  ELSE IF ~openai THEN 400
  ELSE IF Falsy(body.term) /\ Falsy(body.definition) /\ Falsy(body.example)
          /\ Falsy(body.synonyms) THEN 400
  ELSE 0

\* a review whose capitalization suggestion replaces the oracle's suggestions
reviewFieldOnlyCapitalization(field, original, value) ==
  IF ~value.isObject THEN [NoReview EXCEPT !.ok = TRUE]
  ELSE
    LET normalizedPos == normalizePartOfSpeech(IF Falsy(value.partOfSpeech) THEN value.pos
                                               ELSE value.partOfSpeech)
        first ==
          [ok |-> TRUE,
           corrected |-> IF value.corrected.t = "str" /\ trim(value.corrected.s) # <<>>
                         THEN value.corrected ELSE Null,
           suggestions |-> value.suggestions,
           lemma |-> IF value.lemma.t = "str" /\ trim(value.lemma.s) # <<>>
                     THEN Str(trim(value.lemma.s)) ELSE Null,
           partOfSpeech |-> normalizedPos,
           article |-> IF value.article.t = "str" /\ trim(value.article.s) # <<>>
                       THEN Str(toLowerCase(trim(value.article.s))) ELSE Null]
        base == IF first.corrected.t = "str" THEN first.corrected.s ELSE original
        capitalized == capitalizeFirst(base)
    IN  IF field = "term" /\ noun \in Range(first.partOfSpeech)
           /\ capitalized # <<>> /\ capitalized # base
        THEN [first EXCEPT
                !.corrected = Str(capitalized),
                !.suggestions = <<[from |-> IF original # <<>> THEN original ELSE base,
                                   to |-> capitalized,
                                   reason |-> "Großschreibung (Nomen)"]>>]
        ELSE first

\* result[field] of POST /api/entries/spellcheck (lines 532-572): original is
\* body[field], value the oracle's member for the field (isObject: it is an
\* object)
reviewField(field, original, value) ==
  IF ~value.isObject THEN [NoReview EXCEPT !.ok = TRUE]
  ELSE
    LET normalizedPos == normalizePartOfSpeech(IF Falsy(value.partOfSpeech) THEN value.pos
                                               ELSE value.partOfSpeech)
        first ==
          [ok |-> TRUE,
           corrected |-> IF value.corrected.t = "str" /\ trim(value.corrected.s) # <<>>
                         THEN value.corrected ELSE Null,
           suggestions |-> value.suggestions,
           lemma |-> IF value.lemma.t = "str" /\ trim(value.lemma.s) # <<>>
                     THEN Str(trim(value.lemma.s)) ELSE Null,
           partOfSpeech |-> normalizedPos,
           article |-> IF value.article.t = "str" /\ trim(value.article.s) # <<>>
                       THEN Str(toLowerCase(trim(value.article.s))) ELSE Null]
        originalTerm == original
        base == IF first.corrected.t = "str" THEN first.corrected.s ELSE originalTerm
        capitalized == capitalizeFirst(base)
    IN  IF field = "term" /\ noun \in Range(first.partOfSpeech)
           /\ capitalized # <<>> /\ capitalized # base
        THEN [first EXCEPT
                !.corrected = Str(capitalized),
                !.suggestions = Append(@, [from |-> IF originalTerm # <<>> THEN originalTerm
                                                    ELSE base,
                                           to |-> capitalized,
                                           reason |-> "Großschreibung (Nomen)"])]
        ELSE first

(***************************************************************************)
(* The editor form of the web client.                                      *)
(***************************************************************************)
\* asText
asText(value) ==
  CASE value.t = "str" -> value.s
    [] value.t = "num" -> StringOf(value)
    [] OTHER -> <<>>

\* asArray(list).map(p => asText(p).trim().toLowerCase()).filter(Boolean) on a
\* list of strings
RECURSIVE CleanTags(_)
CleanTags(list) ==
  IF list = <<>> THEN <<>>
  ELSE LET p == toLowerCase(trim(Head(list)))
       IN  (IF p # <<>> THEN <<p>> ELSE <<>>) \o CleanTags(Tail(list))

\* the updater of togglePartOfSpeech
togglePartOfSpeech(current, value) ==
  LET currentList == CleanTags(current.partOfSpeech)
      next == IF value \in Range(currentList) THEN <<>> ELSE <<value>>
  IN  [current EXCEPT
         !.partOfSpeech = next,
         !.article = IF noun \in Range(next) THEN current.article ELSE <<>>,
         !.term = IF noun \in Range(next) /\ current.term # <<>>
                  THEN capitalizeFirst(current.term) ELSE current.term]

\* the updater of applyMorphologyFromReview; termReview is reviewData.term
applyMorphologyFromReview(current, termReview) ==
  IF ~termReview.ok THEN current
  ELSE
    LET suggestedPos == Slice(CleanTags(termReview.partOfSpeech), 1)
        suggestedArticle == toLowerCase(trim(asText(termReview.article)))
        currentPos == CleanTags(current.partOfSpeech)
        currentArticle == toLowerCase(trim(current.article))
        fill == currentPos = <<>> /\ suggestedPos # <<>>
        next1 == IF fill
                 THEN [current EXCEPT
                         !.partOfSpeech = suggestedPos,
                         !.article = IF noun \in Range(suggestedPos) THEN @ ELSE <<>>]
                 ELSE [current EXCEPT !.partOfSpeech = currentPos]
        targetPos == IF next1.partOfSpeech # <<>> THEN next1.partOfSpeech ELSE suggestedPos
        setArticle == noun \in Range(targetPos) /\ currentArticle = <<>>
                      /\ suggestedArticle # <<>>
        next2 == IF setArticle THEN [next1 EXCEPT !.article = suggestedArticle] ELSE next1
    IN  IF suggestedPos = <<>> /\ suggestedArticle = <<>> THEN current
        ELSE IF fill \/ setArticle THEN next2 ELSE current

\* focusedPayload of completeWithAi (lines 894-913), built from the form of
\* the render the handler was created in
focusedPayload(closure, focusedField) ==
  LET opt(text) == IF trim(text) # <<>> THEN Str(trim(text)) ELSE Undef
      normalizedPos == CleanTags(closure.partOfSpeech)
      primaryPos == Slice(normalizedPos, 1)
      normalizedArticle == toLowerCase(trim(closure.article))
  IN  [term |-> IF focusedField = "term" THEN opt(closure.term) ELSE Undef,
       definition |-> opt(closure.definition),
       example |-> IF focusedField = "term" THEN opt(closure.example) ELSE Undef,
       synonyms |-> IF focusedField = "term" THEN opt(closure.synonyms) ELSE Undef,
       partOfSpeech |-> IF primaryPos # <<>>
                        THEN Arr([i \in DOMAIN primaryPos |-> Str(primaryPos[i])])
                        ELSE Undef,
       article |-> IF noun \in Range(primaryPos) THEN Str(normalizedArticle) ELSE Undef]

\* the updater of the merge in completeWithAi (lines 941-964); payload is the
\* response body of ai-complete
mergeCompletion(current, payload) ==
  LET payloadPos == Slice(CleanTags(payload.partOfSpeech), 1)
      payloadArticle == toLowerCase(trim(asText(payload.article)))
      currentPos == CleanTags(current.partOfSpeech)
      nextPos == IF payloadPos # <<>> THEN payloadPos ELSE currentPos
      or(text, other) == IF text # <<>> THEN text ELSE other
  IN  [term |-> current.term,
       definition |-> or(asText(payload.definition), current.definition),
       example |-> or(asText(payload.example), current.example),
       synonyms |-> or(asText(payload.synonyms), current.synonyms),
       partOfSpeech |-> nextPos,
       article |-> IF noun \in Range(nextPos)
                   THEN or(payloadArticle, toLowerCase(trim(current.article)))
                   ELSE <<>>]

\* the status of POST /api/entries/spellcheck before the oracle is called
\* (lines 459-488), for a request holding only the field term; 0: the oracle
\* is called
spellcheckGuard(term) ==
  IF adminPassword = Undef THEN 400
  ELSE IF ~Authorized THEN 401
  ELSE IF ~openai THEN 400
  ELSE IF Falsy(term) THEN 400
  ELSE 0

(***************************************************************************)
(* Inputs of the editor and the oracle's answers to it.                    *)
(***************************************************************************)
FormFields == {"term", "definition", "example", "synonyms"}
FocusInputs == {"none", "term", "definition", "example"}
TypedFields == {"term", "definition"}
TypedText(field) == IF field = "term" THEN <<"t">> ELSE <<"d">>
TypedValues(field) == {<<>>, TypedText(field)}

CompletionFailures == {"error", "empty", "invalid", "null"}
NoObject ==
  [term |-> Undef, definition |-> Undef, example |-> Undef, synonyms |-> Undef,
   partOfSpeech |-> Undef, article |-> Undef]
\* the JSON objects the oracle answers a completion with: the ones that
\* propose texts and the ones that propose a morphology
CompletionObjects ==
  {[NoObject EXCEPT !.term = t, !.definition = d, !.example = e, !.synonyms = e] :
     t \in {Undef, Str(<<"T">>)},
     d \in {Null, Str(<<>>), Str(<<"D">>)},
     e \in {Undef, Str(<<"E">>)}}
  \cup
  {[NoObject EXCEPT !.definition = Str(<<"D">>), !.partOfSpeech = p, !.article = a] :
     p \in {Undef, Arr(<<Str(verb)>>), Str(<<" ">> \o capitalizeFirst(noun))},
     a \in {Undef, Str(der)}}
CompletionPayloads ==
  {[kind |-> k, obj |-> NoObject] : k \in CompletionFailures}
    \cup {[kind |-> "object", obj |-> o] : o \in CompletionObjects}

NoMember ==
  [isObject |-> FALSE, corrected |-> Undef, suggestions |-> <<>>, lemma |-> Undef,
   partOfSpeech |-> Undef, pos |-> Undef, article |-> Undef]
\* the member term of the JSON objects the oracle answers a review with
ReviewMembers ==
  {NoMember,
   [NoMember EXCEPT !.isObject = TRUE, !.partOfSpeech = Arr(<<Str(noun)>>),
                    !.article = Str(<<"D", "a", "s", " ">>)],
   [NoMember EXCEPT !.isObject = TRUE, !.pos = Str(verb), !.article = Str(die),
                    !.corrected = Str(<<"t", "t">>), !.lemma = Str(<<" ", "t">>),
                    !.suggestions = <<[from |-> <<"t">>, to |-> <<"t", "t">>,
                                       reason |-> "Tippfehler"]>>],
   [NoMember EXCEPT !.isObject = TRUE, !.article = Str(der)],
   [NoMember EXCEPT !.isObject = TRUE, !.partOfSpeech = Arr(<<Str(noun)>>),
                    !.article = Str(der), !.corrected = Str(<<"t", "t">>),
                    !.suggestions = <<[from |-> <<"t">>, to |-> <<"t", "t">>,
                                       reason |-> "Tippfehler"]>>]}
ReviewPayloads ==
  {[kind |-> k, member |-> NoMember] : k \in {"error", "invalid"}}
    \cup {[kind |-> "object", member |-> m] : m \in ReviewMembers}

(***************************************************************************)
(* The editor's handlers.  A completion runs in steps, one per await; the  *)
(* editor types and clicks between completions.                            *)
(***************************************************************************)
serverVars == <<openai, entries, alternatives, now, calls, oracleCalls, lastOk, lastAgg,
                adminPassword, nextId, stripsUndefined>>

EditorIdle == ai.pc = "idle"

\* updateForm(field) with the typed value
updateForm(field, value) ==
  /\ EditorIdle
  /\ form' = [form EXCEPT ![field] = value]
  /\ lemmaSuggestions' = IF field = "term" THEN <<>> ELSE lemmaSuggestions
  /\ resp' = NoResp
  /\ completion' = NoCompletion
  /\ UNCHANGED <<serverVars, cookie, lastFocusedField, isLoggedIn, aiStatus, reviewResult,
                 ai>>

\* rememberFocus(field)
rememberFocus(field) ==
  /\ EditorIdle
  /\ lastFocusedField' = field
  /\ resp' = NoResp
  /\ completion' = NoCompletion
  /\ UNCHANGED <<serverVars, cookie, form, isLoggedIn, aiStatus, lemmaSuggestions,
                 reviewResult, ai>>

\* a click on a part-of-speech button
TogglePartOfSpeech(value) ==
  /\ EditorIdle
  /\ form' = togglePartOfSpeech(form, value)
  /\ resp' = NoResp
  /\ completion' = NoCompletion
  /\ UNCHANGED <<serverVars, cookie, lastFocusedField, isLoggedIn, aiStatus,
                 lemmaSuggestions, reviewResult, ai>>

\* resetAllFields
resetAllFields ==
  /\ EditorIdle
  /\ form' = emptyForm
  /\ lemmaSuggestions' = <<>>
  /\ reviewResult' = NoReview
  /\ lastFocusedField' = "none"
  /\ resp' = NoResp
  /\ completion' = NoCompletion
  /\ UNCHANGED <<serverVars, cookie, isLoggedIn, aiStatus, ai>>

\* loginForAi with the typed password, and the server's POST /api/auth/login
loginForAi(password) ==
  /\ EditorIdle
  /\ resp' = Response("login", loginStatus(password), NoResults)
  /\ IF loginStatus(password) = 200
     THEN cookie' = TRUE /\ isLoggedIn' = TRUE /\ aiStatus' = "success"
     ELSE aiStatus' = "error" /\ UNCHANGED <<cookie, isLoggedIn>>
  /\ completion' = NoCompletion
  /\ UNCHANGED <<serverVars, form, lastFocusedField, lemmaSuggestions, reviewResult, ai>>

\* logoutAi, and the server's POST /api/auth/logout
logoutAi ==
  /\ EditorIdle
  /\ resp' = Response("logout", 200, NoResults)
  /\ cookie' = FALSE
  /\ isLoggedIn' = FALSE
  /\ completion' = NoCompletion
  /\ UNCHANGED <<serverVars, form, lastFocusedField, aiStatus, lemmaSuggestions,
                 reviewResult, ai>>

\* completeWithAi up to its first await (lines 840-890); closure is the form
\* of the render the handler was created in, domFocusedField the element
\* that holds the focus, lastFocused the value of lastFocusedField.current
StartCompletion(closure, lastFocused, domFocusedField) ==
  LET hasTerm == trim(closure.term)
      hasDefinition == trim(closure.definition)
      focused0 == IF lastFocused # "none" THEN lastFocused ELSE domFocusedField
      focusedField == IF focused0 # "none" THEN focused0
                      ELSE IF hasTerm # <<>> THEN "term"
                      ELSE IF hasDefinition # <<>> THEN "definition"
                      ELSE "none"
      reviewFieldValue == IF focusedField = "term" THEN hasTerm ELSE hasDefinition
  IN  IF ~isLoggedIn \/ focusedField \notin {"term", "definition"}
      THEN /\ aiStatus' = "error"
           /\ UNCHANGED <<reviewResult, ai>>
      ELSE /\ aiStatus' = "loading"
           /\ reviewResult' = NoReview
           /\ ai' = [pc |-> IF focusedField = "term" /\ reviewFieldValue # <<>>
                            THEN "review" ELSE "complete",
                     focusedField |-> focusedField,
                     closure |-> closure,
                     reviewFieldValue |-> reviewFieldValue,
                     oracleCalls |-> 0]

\* a click on the completion button, which is disabled while aiStatus is
\* "loading"
ClickComplete(domFocusedField) ==
  /\ EditorIdle
  /\ aiStatus # "loading"
  /\ StartCompletion(form, lastFocusedField, domFocusedField)
  /\ resp' = NoResp
  /\ completion' = NoCompletion
  /\ UNCHANGED <<serverVars, cookie, form, lastFocusedField, isLoggedIn, lemmaSuggestions>>

\* applyLemmaSuggestion(value) for the offered suggestion; the completion it
\* starts was created in the render that offered the suggestion
applyLemmaSuggestion ==
  /\ EditorIdle
  /\ lemmaSuggestions # <<>>
  /\ LET suggestion == trim(lemmaSuggestions[1])
         hasNoun == noun \in Range(CleanTags(form.partOfSpeech))
     IN  /\ suggestion # <<>>
         /\ lastFocusedField' = "term"
         /\ lemmaSuggestions' = <<>>
         /\ form' = [emptyForm EXCEPT
                       !.term = IF hasNoun THEN capitalizeFirst(suggestion) ELSE suggestion]
         /\ StartCompletion(form, "term", "term")
  /\ resp' = NoResp
  /\ completion' = NoCompletion
  /\ UNCHANGED <<serverVars, cookie, isLoggedIn>>

\* the answer of POST /api/entries/spellcheck for the field term: the status
\* and result.term
spellcheck(term, payload) ==
  IF spellcheckGuard(Str(term)) # 0
  THEN [status |-> spellcheckGuard(Str(term)), term |-> NoReview]
  ELSE IF payload.kind # "object" THEN [status |-> 500, term |-> NoReview]
  ELSE [status |-> 200, term |-> reviewField("term", term, payload.member)]

\* an ai-complete that answers a failed oracle call like an empty object
aiCompleteIgnoringFailure(body, payload) ==
  IF aiCompleteGuard(body) # 0
  THEN [status |-> aiCompleteGuard(body), result |-> emptyForm]
  ELSE [status |-> 200, result |-> aiCompleteResult(body, payload.obj)]

\* the answer of POST /api/entries/ai-complete: the status and the body
aiComplete(body, payload) ==
  IF aiCompleteGuard(body) # 0
  THEN [status |-> aiCompleteGuard(body), result |-> emptyForm]
  ELSE IF payload.kind # "object" THEN [status |-> 500, result |-> emptyForm]
  ELSE [status |-> 200, result |-> aiCompleteResult(body, payload.obj)]

\* whether the request reached the oracle
ReachedOracle(status) == IF status \in {200, 500} THEN 1 ELSE 0

\* completeWithAi from the answer of its first review to the sending of the
\* completion request (lines 890-922)
ReviewReturn(payload) ==
  /\ ai.pc = "review"
  /\ LET answer == spellcheck(ai.reviewFieldValue, payload)
         reviewData == IF answer.status = 200 THEN answer.term ELSE NoReview
     IN  /\ reviewResult' = reviewData
         /\ form' = applyMorphologyFromReview(form, reviewData)
         /\ ai' = [ai EXCEPT !.pc = "complete",
                             !.oracleCalls = @ + ReachedOracle(answer.status)]
         /\ resp' = Response("spellcheck", answer.status, NoResults)
  /\ completion' = NoCompletion
  /\ UNCHANGED <<serverVars, cookie, lastFocusedField, isLoggedIn, aiStatus,
                 lemmaSuggestions>>

\* a completion that reports nothing when a definition got no lemma
CompleteReturnSilentWithoutLemma(payload) ==
  /\ ai.pc = "complete"
  /\ LET body == focusedPayload(ai.closure, ai.focusedField)
         answer == aiComplete(body, payload)
         lemma == trim(asText(answer.result.term))
         counted == [ai EXCEPT !.oracleCalls = @ + ReachedOracle(answer.status)]
         ended == IdleAi
     IN  /\ completion' = [status |-> answer.status, body |-> body,
                           parsed |-> payload.obj, result |-> answer.result,
                           before |-> form, focusedField |-> ai.focusedField,
                           kind |-> payload.kind]
         /\ resp' = Response("complete", answer.status, NoResults)
         /\ IF answer.status # 200
            THEN /\ aiStatus' = "error"
                 /\ ai' = ended
                 /\ UNCHANGED <<form, lemmaSuggestions>>
            ELSE IF ai.focusedField = "definition"
            THEN /\ lemmaSuggestions' = IF lemma # <<>> THEN <<lemma>> ELSE lemmaSuggestions
                 /\ aiStatus' = IF lemma # <<>> THEN "success" ELSE aiStatus
                 /\ ai' = ended
                 /\ UNCHANGED form
            ELSE /\ lemmaSuggestions' = <<>>
                 /\ form' = mergeCompletion(form, answer.result)
                 /\ aiStatus' = "success"
                 /\ ai' = IF ai.reviewFieldValue # <<>>
                          THEN [counted EXCEPT !.pc = "rereview"] ELSE ended
  /\ UNCHANGED <<serverVars, cookie, lastFocusedField, isLoggedIn, reviewResult>>

\* completeWithAi from the answer of the completion request to its next
\* await or its end (lines 924-975)
CompleteReturn(payload) ==
  /\ ai.pc = "complete"
  /\ LET body == focusedPayload(ai.closure, ai.focusedField)
         answer == aiComplete(body, payload)
         lemma == trim(asText(answer.result.term))
         counted == [ai EXCEPT !.oracleCalls = @ + ReachedOracle(answer.status)]
         ended == IdleAi
     IN  /\ completion' = [status |-> answer.status, body |-> body,
                           parsed |-> payload.obj, result |-> answer.result,
                           before |-> form, focusedField |-> ai.focusedField,
                           kind |-> payload.kind]
         /\ resp' = Response("complete", answer.status, NoResults)
         /\ IF answer.status # 200
            THEN /\ aiStatus' = "error"
                 /\ ai' = ended
                 /\ UNCHANGED <<form, lemmaSuggestions>>
            ELSE IF ai.focusedField = "definition"
            THEN /\ lemmaSuggestions' = IF lemma # <<>> THEN <<lemma>> ELSE lemmaSuggestions
                 /\ aiStatus' = IF lemma # <<>> THEN "success" ELSE "error"
                 /\ ai' = ended
                 /\ UNCHANGED form
            ELSE /\ lemmaSuggestions' = <<>>
                 /\ form' = mergeCompletion(form, answer.result)
                 /\ aiStatus' = "success"
                 /\ ai' = IF ai.reviewFieldValue # <<>>
                          THEN [counted EXCEPT !.pc = "rereview"] ELSE ended
  /\ UNCHANGED <<serverVars, cookie, lastFocusedField, isLoggedIn, reviewResult>>

\* completeWithAi from the answer of its second review to its end
SecondReviewReturn(payload) ==
  /\ ai.pc = "rereview"
  /\ LET answer == spellcheck(ai.reviewFieldValue, payload)
     IN  /\ reviewResult' = IF answer.status = 200 THEN answer.term ELSE NoReview
         /\ ai' = IdleAi
         /\ resp' = Response("spellcheck", answer.status, NoResults)
  /\ completion' = NoCompletion
  /\ UNCHANGED <<serverVars, cookie, form, lastFocusedField, isLoggedIn, aiStatus,
                 lemmaSuggestions>>

FormInit ==
  /\ openai = TRUE
  /\ entries = <<>>
  /\ alternatives = <<>>
  /\ now = 0
  /\ calls = [c \in CallIds |-> IdleCall]
  /\ oracleCalls = 0
  /\ resp = NoResp
  /\ lastOk = NoResults
  /\ lastAgg = NoResults
  /\ adminPassword = Str(<<"p">>)
  /\ cookie = FALSE
  /\ nextId = 1
  /\ stripsUndefined = TRUE
  /\ isLoggedIn = FALSE
  /\ clientIdle

FormNext ==
  \/ \E field \in TypedFields : \E value \in TypedValues(field) : updateForm(field, value)
  \/ \E field \in TypedFields : rememberFocus(field)
  \/ \E value \in {noun, verb} : TogglePartOfSpeech(value)
  \/ resetAllFields
  \/ \E password \in PasswordInputs : loginForAi(password)
  \/ logoutAi
  \/ \E domFocusedField \in FocusInputs : ClickComplete(domFocusedField)
  \/ applyLemmaSuggestion
  \/ \E payload \in ReviewPayloads : ReviewReturn(payload)
  \/ \E payload \in CompletionPayloads : CompleteReturn(payload)
  \/ \E payload \in ReviewPayloads : SecondReviewReturn(payload)

FormSpec == FormInit /\ [][FormNext]_vars

\* the tags of a request's partOfSpeech
TagsOf(value) == IF value.t = "arr" THEN [i \in DOMAIN value.a |-> value.a[i].s] ELSE <<>>

\* C9: a part of speech (and article) set in the request or in the form
\* before the completion step is kept, whatever morphology the oracle
\* proposes: the completion result holds the request's part of speech and
\* article, and the merged form holds the form's earlier ones.
C9_MorphologyKept ==
  [][(ai.pc = "complete" /\ completion'.status = 200) =>
       /\ completion'.body.partOfSpeech # Undef =>
            /\ completion'.result.partOfSpeech = TagsOf(completion'.body.partOfSpeech)
            /\ ~Falsy(completion'.body.article) =>
                 completion'.result.article = completion'.body.article
       /\ (ai.focusedField = "term" /\ form.partOfSpeech # <<>>) =>
            /\ form'.partOfSpeech = form.partOfSpeech
            /\ form.article # <<>> => form'.article = form.article]_vars

\* C10: on a successful completion each of term, definition, example and
\* synonyms of the result is the oracle's value when that is non-empty, and
\* the request's value of the field when the oracle omitted it or returned
\* null or the empty string.
C10_FieldFallback ==
  completion.status = 200 =>
    \A field \in FormFields :
      completion.result[field] =
        IF ~Falsy(completion.parsed[field]) THEN completion.parsed[field]
        ELSE Coalesce(completion.body[field], Str(<<>>))

\* C11: a completion never replaces the text that a field other than the
\* focused one holds (the editor has no step that acknowledges a replacement)
C11_UserTextKept ==
  [][ai.pc = "complete" =>
       \A field \in FormFields \ {ai.focusedField} :
         form[field] # <<>> => form'[field] = form[field]]_vars

\* the four text fields of a form
TextFields(f) == <<f.term, f.definition, f.example, f.synonyms>>

\* C12: when the oracle call of a completion fails or its response is empty
\* or unparseable, the editor shows an error and term, definition, example
\* and synonyms stay what they were when the completion started: neither the
\* review that precedes the request nor the failed request changes them
C12_FailureKeepsFields ==
  [][/\ ai.pc = "review" => TextFields(form') = TextFields(form)
     /\ (ai.pc = "complete" /\ completion'.kind \in CompletionFailures)
          => /\ completion'.status \notin {0, 200}
             /\ aiStatus' = "error"
             /\ TextFields(form') = TextFields(form)
             /\ lemmaSuggestions' = lemmaSuggestions]_vars

\* a completion of a form holding text ended with a failed oracle call
C12_Witness ==
  /\ completion.status = 500
  /\ completion.kind \in CompletionFailures
  /\ aiStatus = "error"
  /\ form.term # <<>> /\ form.definition # <<>>
  /\ TextFields(form) = TextFields(completion.before)

(***************************************************************************)
(* The API called directly: login, the AI endpoints, the alternatives and  *)
(* the entry store, by a caller that may or may not hold the cookie.       *)
(***************************************************************************)
\* fieldsToReview of POST /api/entries/spellcheck (lines 470-483) for a body
\* that gives neither userFields nor userInput
fieldsToReview(body) == {field \in FormFields : ~Falsy(body[field])}

\* a review that does not ask whether the oracle credential is configured
reviewGuardNoCredentialCheck(body) ==
  IF adminPassword = Undef THEN 400
  ELSE IF ~Authorized THEN 401
  ELSE IF fieldsToReview(body) = {} THEN 400
  ELSE 0

\* the status of POST /api/entries/spellcheck before the oracle is called
\* (lines 459-488); 0: the oracle is called
reviewGuard(body) ==
  IF adminPassword = Undef THEN 400
  ELSE IF ~Authorized THEN 401
  ELSE IF ~openai THEN 400
  ELSE IF fieldsToReview(body) = {} THEN 400
  ELSE 0

\* the status an AI endpoint answers with: its refusal, 500 when the oracle
\* call fails or its content is missing or not JSON, else 200
aiStatusOf(guard, kind) ==
  IF guard # 0 THEN guard ELSE IF kind # "object" THEN 500 ELSE 200

\* the body of a review or completion request, as answered
RequestOf(body) ==
  [NoRequest EXCEPT !.term = body.term, !.definition = body.definition,
                    !.example = body.example, !.synonyms = body.synonyms]

\* POST /api/entries/spellcheck; the handler reads and writes no stored data
ReviewRequest(body, payload) ==
  /\ reviewGuard(body) = 0 => oracleCalls < MaxOracleCalls
  /\ oracleCalls' = oracleCalls + (IF reviewGuard(body) = 0 THEN 1 ELSE 0)
  /\ resp' = [Response("spellcheck", aiStatusOf(reviewGuard(body), payload.kind), NoResults)
                EXCEPT !.request = RequestOf(body)]
  /\ UNCHANGED <<openai, entries, alternatives, now, calls, lastOk, lastAgg, adminPassword,
                 cookie, nextId, stripsUndefined, clientVars>>

\* POST /api/entries/ai-complete; the handler reads and writes no stored data
CompleteRequest(body, payload) ==
  /\ aiCompleteGuard(body) = 0 => oracleCalls < MaxOracleCalls
  /\ oracleCalls' = oracleCalls + ReachedOracle(aiComplete(body, payload).status)
  /\ resp' = [Response("complete", aiComplete(body, payload).status, NoResults)
                EXCEPT !.request = RequestOf(body)]
  /\ UNCHANGED <<openai, entries, alternatives, now, calls, lastOk, lastAgg, adminPassword,
                 cookie, nextId, stripsUndefined, clientVars>>

\* create and update bodies of the direct caller: the term of the generated
\* item without part of speech and as a noun with article; and a body
\* without term
ApiEntryBodies ==
  { [term |-> Str(tx), definition |-> Str(ta), example |-> Undef, synonyms |-> Undef,
     partOfSpeech |-> Undef, article |-> Undef],
    [term |-> Str(tx), definition |-> Str(ta), example |-> Undef, synonyms |-> Undef,
     partOfSpeech |-> Str(noun), article |-> Str(der)],
    [term |-> Undef, definition |-> Str(ta), example |-> Undef, synonyms |-> Undef,
     partOfSpeech |-> Undef, article |-> Undef] }

\* generate bodies of the direct caller: an item, a blank item
ApiItemInputs == {tx, <<" ">>}

\* the oracle's answers to the direct caller's generate requests: a rejected
\* call, and a response that gives every situation one text
ApiAlternativePayloads ==
  { payload \in AlternativePayloads :
      \/ payload.kind = "error"
      \/ payload.hasResults /\ \A k \in Situations : payload.results[k] = Arr(<<Str(ta)>>) }

\* review and completion bodies of the direct caller: no field, an empty
\* term, a term, a definition
ApiAiBodies ==
  { [NoObject EXCEPT !.term = t] : t \in {Undef, Str(<<>>), Str(tt)} }
  \cup { [NoObject EXCEPT !.definition = Str(ta)] }

\* the oracle's answers to the direct caller's review requests: a rejected
\* call, an object without members
ApiReviewPayloads ==
  { payload \in ReviewPayloads :
      payload.member = NoMember /\ payload.kind \in {"error", "object"} }

\* the oracle's answers to the direct caller's completion requests: a
\* rejected call, an object with a definition
ApiCompletionPayloads ==
  { payload \in CompletionPayloads :
      \/ payload.kind = "error"
      \/ payload.kind = "object" /\ payload.obj = [NoObject EXCEPT !.definition = Str(<<"D">>)] }

\* a server with or without the oracle credential and with or without
\* ADMIN_PASSWORD, no stored data, no session
ApiInit ==
  /\ openai \in BOOLEAN
  /\ entries = <<>>
  /\ alternatives = <<>>
  /\ now = 0
  /\ calls = [c \in CallIds |-> IdleCall]
  /\ oracleCalls = 0
  /\ resp = NoResp
  /\ lastOk = NoResults
  /\ lastAgg = NoResults
  /\ adminPassword \in {Undef, Str(<<"p">>)}
  /\ cookie = FALSE
  /\ nextId = 1
  /\ stripsUndefined = TRUE
  /\ isLoggedIn = FALSE
  /\ clientIdle

ApiNext ==
  \/ \E password \in PasswordInputs : Login(password)
  \/ Logout
  \/ \E body \in ApiAiBodies, payload \in ApiReviewPayloads : ReviewRequest(body, payload)
  \/ \E body \in ApiAiBodies, payload \in ApiCompletionPayloads : CompleteRequest(body, payload)
  \/ \E itemText \in ApiItemInputs : GenerateRequest(1, itemText)
  \/ \E payload \in ApiAlternativePayloads : OracleReturn(1, payload)
  \/ FindReturn(1)
  \/ InsertDone(1)
  \/ AggregateReturn(1)
  \/ \E id \in EntryIds : GetAlternatives(id)
  \/ \E id \in EntryIds : DeleteAlternatives(id)
  \/ GetSummary
  \/ \E body \in ApiEntryBodies : CreateEntry(body)
  \/ \E id \in EntryIds, body \in ApiEntryBodies : UpdateEntry(id, body)
  \/ \E id \in EntryIds : DeleteEntry(id)

ApiSpec == ApiInit /\ [][ApiNext]_vars

(***************************************************************************)
(* Properties of the API called directly.                                  *)
(***************************************************************************)
\* the caller passes every check an AI endpoint makes before it looks at the
\* request body
AiReady == adminPassword # Undef /\ Authorized /\ openai

\* the step calls no oracle and changes no stored data
NothingDone ==
  /\ oracleCalls' = oracleCalls
  /\ entries' = entries
  /\ alternatives' = alternatives

C14_OneOracleCallPerPress == ai.oracleCalls <= 1

\* C15: while no session is logged in, no step calls the oracle or changes
\* the stored entries or the stored alternatives
C15_LoginUnlocks == [][~cookie => NothingDone]_vars

(***************************************************************************)
(* Properties of a server without the oracle credential.                   *)
(***************************************************************************)
\* without the credential a review or completion request is refused (400
\* when ADMIN_PASSWORD is set and the caller logged in) and nothing is done
AiRefusedUnconfigured ==
  resp'.op \in {"spellcheck", "complete"}
    => /\ resp'.status \in {400, 401}
       /\ (adminPassword # Undef /\ Authorized) => resp'.status = 400
       /\ NothingDone

\* the entry endpoints, aggregate, deleteAll and summary answer without
\* regard to the credential: the entry endpoints refuse exactly the callers
\* without cookie, a stored entry is added by a 201 and removed by a
\* delete's 200, aggregate and deleteAll answer 200 or 404, summary 200
OthersAnswer ==
  /\ resp'.op \in {"create", "update", "delete"} => (resp'.status = 401 <=> ~Authorized)
  /\ (resp'.op = "create" /\ resp'.status = 201)
       => DOMAIN entries' = DOMAIN entries \cup {nextId}
  /\ (resp'.op = "delete" /\ resp'.status = 200)
       => \E id \in DOMAIN entries : DOMAIN entries' = DOMAIN entries \ {id}
  /\ resp'.op \in {"aggregate", "deleteAll"} => resp'.status \in {200, 404}
  /\ resp'.op = "summary" => resp'.status = 200

\* C16 as stated: without the oracle credential only review and completion
\* are refused; a generate request is refused only for a blank item
C16_OnlyReviewAndCompleteRefused ==
  [][~openai =>
       /\ AiRefusedUnconfigured
       /\ OthersAnswer
       /\ (resp'.op = "generate" /\ resp'.status = 400)
            => trim(resp'.request.item.s) = <<>>]_vars

\* C16: without the oracle credential review, completion and generate are
\* refused and do nothing, no generate request gets to the oracle, and the
\* other endpoints answer as they do with the credential
C16_AiRefusedOthersAnswer ==
  [][~openai =>
       /\ AiRefusedUnconfigured
       /\ OthersAnswer
       /\ resp'.op = "generate" => resp'.status = 400 /\ NothingDone
       /\ \A c \in CallIds : calls'[c].pc = "idle"]_vars

\* a server without the credential refused a logged-in caller's review of a
\* given term while it stores an entry that was created without the credential
C16_Witness ==
  /\ ~openai
  /\ resp.op = "spellcheck"
  /\ resp.status = 400
  /\ fieldsToReview(resp.request) # {}
  /\ adminPassword # Undef /\ Authorized
  /\ entries # <<>>

(***************************************************************************)
(* Properties of the entry store.                                          *)
(***************************************************************************)
\* the body breaks the noun/article rule: a noun without a valid article, or
\* an article given with a part of speech that is no noun
BreaksNounArticleRule(body) ==
  IF noun \in Range(normalizePartOfSpeech(body.partOfSpeech))
  THEN normalizeArticle(body.article) = Undef
  ELSE ~Falsy(body.article)

\* C17: a create or update step whose body breaks the noun/article rule is
\* not answered with success and leaves the stored entries as they were
C17_RuleBreakRejected ==
  [][resp'.op \in {"create", "update"} =>
       \A body \in EntryBodies :
         (/\ BreaksNounArticleRule(body)
          /\ \/ CreateEntry(body)
             \/ \E id \in EntryIds : UpdateEntry(id, body))
           => /\ resp'.status \notin {200, 201}
              /\ entries' = entries]_vars

\* the value is absent: undefined, or stored as null
NoValue(value) == value.t \in {"undef", "null"}

\* two optional stored values are the same value, or both absent
SameValue(v, w) == v = w \/ (NoValue(v) /\ NoValue(w))

\* the validated values of a create or update body
ValidatedEntry(body) ==
  [term |-> trim(body.term.s),
   definition |-> trim(body.definition.s),
   example |-> CastText(body.example),
   synonyms |-> CastText(body.synonyms),
   partOfSpeech |-> validateMorphology(body.partOfSpeech, body.article).partOfSpeech,
   article |-> validateMorphology(body.partOfSpeech, body.article).article]

\* C18: after an update answered with success the stored entry holds exactly
\* the validated values of the body: term, definition, example, synonyms,
\* partOfSpeech and article
C18_UpdateReplacesAll ==
  [][(resp'.op = "update" /\ resp'.status = 200) =>
       \A id \in EntryIds, body \in EntryBodies :
         UpdateEntry(id, body) =>
           /\ entries'[id].term = ValidatedEntry(body).term
           /\ entries'[id].definition = ValidatedEntry(body).definition
           /\ entries'[id].partOfSpeech = ValidatedEntry(body).partOfSpeech
           /\ SameValue(entries'[id].example, ValidatedEntry(body).example)
           /\ SameValue(entries'[id].synonyms, ValidatedEntry(body).synonyms)
           /\ SameValue(entries'[id].article, ValidatedEntry(body).article)]_vars

(***************************************************************************)
(* Properties of deleteAll.                                                *)
(***************************************************************************)
\* the store holds a record of the item
HasRecord(store, item) == \E i \in DOMAIN store : store[i].item = CastItem(item)

\* C19: a deleteAll answered with success leaves no record of the entry's
\* term and answers the five situations with empty lists; while no record of
\* an item is stored an aggregate of the item answers five empty lists and
\* the summary has no count for it; and records of an item that has none
\* appear only by the insert of a generate request
C19_DeleteAllEmpties ==
  [][/\ (resp'.op = "deleteAll" /\ resp'.status = 200)
          => /\ ~HasRecord(alternatives', resp'.body.item)
             /\ DOMAIN resp'.body.results = Situations
             /\ \A k \in Situations : resp'.body.results[k] = <<>>
             /\ \A i \in DOMAIN alternatives :
                  alternatives[i].item # CastItem(resp'.body.item)
                    => \E j \in DOMAIN alternatives' : alternatives'[j] = alternatives[i]
     /\ (resp'.op = "aggregate" /\ resp'.status = 200
           /\ ~HasRecord(alternatives, resp'.body.item))
          => /\ DOMAIN resp'.body.results = Situations
             /\ \A k \in Situations : resp'.body.results[k] = <<>>
     /\ resp'.op = "summary"
          => \A item \in DOMAIN resp'.summary : HasRecord(alternatives, item)
     /\ \A id \in DOMAIN entries :
          (~HasRecord(alternatives, entries[id].term)
             /\ HasRecord(alternatives', entries[id].term))
            => \E c \in CallIds : calls[c].pc = "insert" /\ calls'[c].pc # "insert"]_vars

\* a deleteAll was answered for the term of an entry while the records of
\* another item stay stored
C19_Witness ==
  /\ resp.op = "deleteAll"
  /\ resp.status = 200
  /\ ~HasRecord(alternatives, resp.body.item)
  /\ alternatives # <<>>
  /\ now > 1

(***************************************************************************)
(* Properties of the review of a term.                                     *)
(***************************************************************************)
\* the text the capitalization starts from: the oracle's corrected value when
\* it is a text that is not blank, else the reviewed term
ReviewedText(member, term) ==
  IF member.corrected.t = "str" /\ trim(member.corrected.s) # <<>>
  THEN member.corrected.s ELSE term

\* the step is the answer to a review of the term whose oracle answer is the
\* payload
ReviewAnswered(payload) == ReviewReturn(payload) \/ SecondReviewReturn(payload)

\* C20: when a review of the term is answered with noun among the parts of
\* speech and the corrected value of the oracle, or without one the term,
\* starts with a lowercase letter, the answer's corrected value is that text
\* with its first character in upper case, and its suggestions are the
\* oracle's suggestions followed by one from the term to the capitalized text
C20_CapitalizationAppended ==
  [][ai.pc \in {"review", "rereview"} =>
       \A payload \in ReviewPayloads :
         (/\ ReviewAnswered(payload)
          /\ resp'.status = 200
          /\ noun \in Range(reviewResult'.partOfSpeech)
          /\ ReviewedText(payload.member, ai.reviewFieldValue)[1]
               \in Range(LowerCaseLetters))
           => LET base == ReviewedText(payload.member, ai.reviewFieldValue)
                  capitalized == <<UpperChar(base[1])>> \o Tail(base)
                  given == payload.member.suggestions
              IN  /\ reviewResult'.corrected = Str(capitalized)
                  /\ Len(reviewResult'.suggestions) = Len(given) + 1
                  /\ SubSeq(reviewResult'.suggestions, 1, Len(given)) = given
                  /\ reviewResult'.suggestions[Len(given) + 1].from = ai.reviewFieldValue
                  /\ reviewResult'.suggestions[Len(given) + 1].to = capitalized]_vars

\* the editor holds the review of the term t that the oracle corrected to tt
\* as a noun: corrected Tt, and the oracle's suggestion followed by the
\* capitalization from t to Tt
C20_Witness ==
  /\ reviewResult.ok
  /\ noun \in Range(reviewResult.partOfSpeech)
  /\ reviewResult.corrected = Str(<<"T", "t">>)
  /\ Len(reviewResult.suggestions) = 2
  /\ reviewResult.suggestions[1].to = <<"t", "t">>
  /\ reviewResult.suggestions[2].from = <<"t">>
  /\ reviewResult.suggestions[2].to = <<"T", "t">>

(***************************************************************************)
(* Properties of the stored part of speech and term.                       *)
(***************************************************************************)
\* the tags a request body gives, as a list
GivenTags(value) ==
  IF Falsy(value) THEN <<>> ELSE IF value.t = "arr" THEN value.a ELSE <<value>>

\* the tag is one of the enumeration once lowercased and trimmed
ValidTag(tag) == trim(toLowerCase(StringOf(tag))) \in Range(allowedPos)

\* the first valid tag of the body's partOfSpeech, lowercased; none: empty
FirstValidTag(value) ==
  LET list == GivenTags(value)
      valid == {i \in DOMAIN list : ValidTag(list[i])}
  IN  IF valid = {} THEN <<>>
      ELSE <<trim(toLowerCase(StringOf(
               list[CHOOSE i \in valid : \A j \in valid : i <= j])))>>

\* create and update bodies that differ in term (t, t with a blank, u) and
\* tags: no tag, a tag in
\* another case with blanks, several tags with unknown ones and a repeated
\* one, an adverb before a noun; each with a valid article
TagBodies ==
  { [term |-> Str(t), definition |-> Str(ta), example |-> Undef, synonyms |-> Undef,
     partOfSpeech |-> p, article |-> Str(der)] :
      t \in {tt, <<"t", " ">>, tu},
      p \in PosInputs \cup
            {Arr(<<Str(<<"A", "d", "v", "e", "r", "b", " ">>), Str(noun)>>)} }

TagNext ==
  \/ \E password \in PasswordInputs : Login(password)
  \/ Logout
  \/ \E body \in TagBodies : CreateEntry(body)
  \/ \E id \in EntryIds, body \in TagBodies : UpdateEntry(id, body)
  \/ \E id \in EntryIds : DeleteEntry(id)

TagSpec == EntryInit /\ [][TagNext]_vars

\* C21: the partOfSpeech of every stored entry is empty or one tag of the
\* enumeration, and a create or update answered with success stores the
\* first valid tag of its body, lowercased
C21_OnePrimaryTag ==
  [][/\ \A id \in DOMAIN entries' :
          /\ Len(entries'[id].partOfSpeech) <= 1
          /\ \A i \in DOMAIN entries'[id].partOfSpeech :
               entries'[id].partOfSpeech[i] \in Range(allowedPos)
     /\ (resp'.op = "create" /\ resp'.status = 201) =>
          \A body \in TagBodies :
            CreateEntry(body)
              => entries'[nextId].partOfSpeech = FirstValidTag(body.partOfSpeech)
     /\ (resp'.op = "update" /\ resp'.status = 200) =>
          \A id \in EntryIds, body \in TagBodies :
            UpdateEntry(id, body)
              => entries'[id].partOfSpeech = FirstValidTag(body.partOfSpeech)
    ]_vars

\* an entry stores verb, whose body gave x, a number, verb, Verb and noun,
\* and another stores adverb, whose body gave Adverb and noun
C21_Witness ==
  /\ \E id \in DOMAIN entries : entries[id].partOfSpeech = <<verb>>
  /\ \E id \in DOMAIN entries : entries[id].partOfSpeech = <<allowedPos[4]>>

\* another stored entry than id has the body's term, trimmed
OtherHasTerm(body, id) ==
  \E other \in DOMAIN entries : other # id /\ entries[other].term = trim(body.term.s)

\* C22: no two stored entries have the same term, and a logged-in caller's
\* create or update of a stored entry with the term of another stored entry
\* is answered 409 and changes no stored entry
C22_TermsUnique ==
  [][/\ \A id \in DOMAIN entries', other \in DOMAIN entries' :
          entries'[id].term = entries'[other].term => id = other
     /\ resp'.op = "create" =>
          \A body \in TagBodies :
            (Authorized /\ OtherHasTerm(body, 0) /\ CreateEntry(body))
              => resp'.status = 409 /\ entries' = entries
     /\ resp'.op = "update" =>
          \A id \in DOMAIN entries, body \in TagBodies :
            (Authorized /\ OtherHasTerm(body, id) /\ UpdateEntry(id, body))
              => resp'.status = 409 /\ entries' = entries]_vars

\* an update was refused as a conflict while two entries are stored
C22_Witness ==
  /\ resp.op = "update"
  /\ resp.status = 409
  /\ Cardinality(DOMAIN entries) = 2

(***************************************************************************)
(* Properties of the records a generate request inserts.                   *)
(***************************************************************************)
\* the members of a situation's value that are texts with a non-blank
\* character: their positions in the value taken as a list
TextPositions(value) ==
  LET list == IF value.t = "arr" THEN value.a ELSE <<value>>
  IN  {i \in DOMAIN list : list[i].t = "str" /\ trim(list[i].s) # <<>>}

\* the first three texts of a situation's value, trimmed
FirstThreeTexts(value) ==
  LET list == IF value.t = "arr" THEN value.a ELSE <<value>>
      good == TextPositions(value)
      count == IF Cardinality(good) < 3 THEN Cardinality(good) ELSE 3
  IN  [n \in 1..count |->
         trim(list[CHOOSE i \in good : Cardinality({j \in good : j <= i}) = n].s)]

\* the records the step appended to the store
Added == SubSeq(alternatives', Len(alternatives) + 1, Len(alternatives'))

\* C23: a generate request keeps of every situation of the oracle response
\* the first three texts, trimmed, and the records it inserts are at most
\* three per situation and fifteen in all, each with a trimmed text that is
\* not empty and is one of the kept texts of its situation
C23_AtMostThreePerSituation ==
  [][/\ \A c \in CallIds :
          (calls[c].pc = "oracle" /\ calls'[c].pc = "find") =>
            \A payload \in AlternativePayloads :
              OracleReturn(c, payload) =>
                \A k \in Situations :
                  calls'[c].normalized.results[k] = FirstThreeTexts(payload.results[k])
     /\ Len(alternatives') > Len(alternatives) =>
          /\ SubSeq(alternatives', 1, Len(alternatives)) = alternatives
          /\ Len(Added) <= 15
          /\ \A k \in Situations :
               Cardinality({i \in DOMAIN Added : Added[i].situation = k}) <= 3
          /\ \A i \in DOMAIN Added :
               /\ Added[i].alternative_text # <<>>
               /\ trim(Added[i].alternative_text) = Added[i].alternative_text
               /\ \E c \in CallIds :
                    /\ calls[c].pc = "insert"
                    /\ Added[i].alternative_text
                         \in Range(calls[c].normalized.results[Added[i].situation])]_vars

\* one generate request stored A and b for a situation whose value held
\* "A ", " ", a, b and ab: a repeats A, and ab, the fourth text, is not stored
C23_Witness ==
  /\ \E i \in DOMAIN alternatives, j \in DOMAIN alternatives :
       /\ alternatives[i].situation = alternatives[j].situation
       /\ alternatives[i].timestamp = alternatives[j].timestamp
       /\ alternatives[i].item = alternatives[j].item
       /\ alternatives[i].alternative_text = <<"A">>
       /\ alternatives[j].alternative_text = tb
  /\ \A i \in DOMAIN alternatives : alternatives[i].alternative_text # <<"a", "b">>

(***************************************************************************)
(* Properties of the order of the returned lists.                          *)
(***************************************************************************)
\* the place in the store, which is in the order of insertion (inserts append,
\* deletes keep the order), of the first record of the item and situation
\* with the text; 0: none
FirstInserted(store, item, situation, text) ==
  LET places == {i \in DOMAIN store :
                   /\ store[i].item = CastItem(item)
                   /\ store[i].situation = situation
                   /\ store[i].alternative_text = text}
  IN  IF places = {} THEN 0 ELSE CHOOSE i \in places : \A j \in places : i <= j

\* C24: in every list an aggregate returns, on its own or at the end of a
\* generate request, the texts are in the order of their insertion: a text
\* that was inserted earlier than another precedes it
C24_InsertionOrder ==
  [][(resp'.op \in {"aggregate", "generate"} /\ resp'.status = 200) =>
       \A k \in Situations :
         LET list == resp'.body.results[k]
         IN  \A p \in DOMAIN list, q \in DOMAIN list :
               p < q => FirstInserted(alternatives, resp'.body.item, k, list[p])
                          < FirstInserted(alternatives, resp'.body.item, k, list[q])]_vars

(***************************************************************************)
(* Properties of the two stores side by side.                              *)
(***************************************************************************)
\* create and update bodies with the term of the generated item and with
\* another term, to which an entry can be renamed
RenameBodies ==
  { [term |-> Str(t), definition |-> Str(ta), example |-> Undef, synonyms |-> Undef,
     partOfSpeech |-> Undef, article |-> Undef] : t \in {tx, tX} }

\* a configured server without stored data
StoresInit == ApiInit /\ openai /\ adminPassword # Undef

\* the entry endpoints and the alternatives endpoints side by side
StoresNext ==
  \/ \E password \in PasswordInputs : Login(password)
  \/ Logout
  \/ \E body \in RenameBodies : CreateEntry(body)
  \/ \E id \in EntryIds, body \in RenameBodies : UpdateEntry(id, body)
  \/ \E id \in EntryIds : DeleteEntry(id)
  \/ \E itemText \in ApiItemInputs : GenerateRequest(1, itemText)
  \/ \E payload \in ApiAlternativePayloads : OracleReturn(1, payload)
  \/ FindReturn(1)
  \/ InsertDone(1)
  \/ AggregateReturn(1)
  \/ \E id \in EntryIds : GetAlternatives(id)
  \/ \E id \in EntryIds : DeleteAlternatives(id)
  \/ GetSummary

StoresSpec == StoresInit /\ [][StoresNext]_vars

\* no generate request moved
CallsUnchanged == calls' = calls

\* C25: the entry endpoints change no stored alternative; the steps of a
\* generate request, aggregate, deleteAll and summary change no stored
\* entry; and summary counts every stored record under its item, whether or
\* not an entry has that term
C25_StoresApart ==
  [][/\ resp'.op \in {"create", "update", "delete"} => alternatives' = alternatives
     /\ (resp'.op \in {"generate", "aggregate", "deleteAll", "summary"} \/ ~CallsUnchanged)
          => entries' = entries
     /\ resp'.op = "summary" =>
          /\ DOMAIN resp'.summary = {alternatives[i].item : i \in DOMAIN alternatives}
          /\ \A item \in DOMAIN resp'.summary :
               resp'.summary[item]
                 = Cardinality({i \in DOMAIN alternatives : alternatives[i].item = item})]_vars

\* summary counts records of an item that is the term of no stored entry,
\* while an entry is stored: it was renamed
C25_Witness ==
  /\ resp.op = "summary"
  /\ entries # <<>>
  /\ \E item \in DOMAIN resp.summary :
       /\ resp.summary[item] > 0
       /\ \A id \in DOMAIN entries : entries[id].term # item

(***************************************************************************)
(* Properties of the editor form.                                          *)
(***************************************************************************)
\* C26: the form's article is non-empty only if its partOfSpeech holds noun
C26_FormArticleOnlyForNoun ==
  form.article # <<>> => noun \in Range(form.partOfSpeech)

\* startEdit(entry) on an entry of the loaded list: the form takes the
\* stored document's fields
startEditForm(entry) ==
  [term |-> entry.term,
   definition |-> entry.definition,
   example |-> asText(entry.example),
   synonyms |-> asText(entry.synonyms),
   partOfSpeech |-> SelectSeq(entry.partOfSpeech, LAMBDA tag : tag # <<>>),
   article |-> asText(entry.article)]

startEdit(id) ==
  /\ EditorIdle
  /\ id \in DOMAIN entries
  /\ form' = startEditForm(entries[id])
  /\ resp' = NoResp
  /\ completion' = NoCompletion
  /\ UNCHANGED <<serverVars, cookie, lastFocusedField, isLoggedIn, aiStatus,
                 lemmaSuggestions, reviewResult, ai>>

\* the bodies submitEntry sends for a noun with its article and for a verb:
\* JSON.stringify leaves the undefined article and the empty texts' keys out
EditBodies ==
  { [term |-> Str(tt), definition |-> Str(ta), example |-> Str(<<>>),
     synonyms |-> Str(<<>>), partOfSpeech |-> Arr(<<Str(noun)>>), article |-> Str(der)],
    [term |-> Str(tt), definition |-> Str(ta), example |-> Str(<<>>),
     synonyms |-> Str(<<>>), partOfSpeech |-> Arr(<<Str(verb)>>), article |-> Undef] }

EditNext ==
  \/ \E password \in PasswordInputs : Login(password)
  \/ Logout
  \/ \E body \in EditBodies : CreateEntry(body)
  \/ \E id \in EntryIds, body \in EditBodies : UpdateEntry(id, body)
  \/ \E id \in EntryIds : DeleteEntry(id)
  \/ \E id \in EntryIds : startEdit(id)
  \/ \E value \in {noun, verb} : TogglePartOfSpeech(value)
  \/ resetAllFields

\* the entry store with the editor's start-edit, toggles and reset
EditSpec == EntryInit /\ [][EditNext]_vars

(***************************************************************************)
(* The editor with its requests answered: every fetch of a running         *)
(* completeWithAi resolves or rejects, so the step after each await is     *)
(* eventually taken.                                                       *)
(***************************************************************************)
LoadReviewPayloads ==
  {[kind |-> k, member |-> NoMember] : k \in {"error", "object"}}

LoadCompletionPayloads ==
  {[kind |-> "error", obj |-> NoObject]}
    \cup {[kind |-> "object",
           obj |-> [NoObject EXCEPT !.term = t, !.definition = Str(<<"D">>)]] :
             t \in {Undef, Str(<<"T">>)}}

LoadNext ==
  \/ \E field \in TypedFields : \E value \in TypedValues(field) : updateForm(field, value)
  \/ \E field \in TypedFields : rememberFocus(field)
  \/ \E password \in PasswordInputs : loginForAi(password)
  \/ \E domFocusedField \in FocusInputs : ClickComplete(domFocusedField)
  \/ applyLemmaSuggestion
  \/ \E payload \in LoadReviewPayloads : ReviewReturn(payload)
  \/ \E payload \in LoadCompletionPayloads : CompleteReturn(payload)
  \/ \E payload \in LoadReviewPayloads : SecondReviewReturn(payload)

LoadSpec ==
  /\ FormInit
  /\ [][LoadNext]_vars
  /\ WF_vars(\E payload \in LoadReviewPayloads : ReviewReturn(payload))
  /\ WF_vars(\E payload \in LoadCompletionPayloads : CompleteReturn(payload))
  /\ WF_vars(\E payload \in LoadReviewPayloads : SecondReviewReturn(payload))

\* C27: a completion that set aiStatus to loading eventually sets it to
\* success or error, and aiStatus is not loading once the completion has ended
C27_LoadingEnds ==
  /\ [](ai.pc = "idle" => aiStatus # "loading")
  /\ (aiStatus = "loading") ~> (aiStatus \in {"success", "error"} /\ ai.pc \in {"idle", "rereview"})
  /\ (ai.pc # "idle") ~> (ai.pc = "idle")

\* a completion has ended with each status, on each of its paths
C27_Witness ==
  /\ ai.pc = "idle"
  /\ completion.status = 200
  /\ completion.focusedField = "definition"
  /\ trim(asText(completion.result.term)) = <<>>
  /\ aiStatus = "error"

\* the completion request a started completeWithAi sends
IssuedRequest == focusedPayload(ai.closure, ai.focusedField)

\* C28: the completion request issued when a lemma suggestion is applied
\* carries the suggested lemma as its term and no definition, example or
\* synonyms of the form the suggestion was applied to
C28_SuggestionRequestIsFresh ==
  [][(applyLemmaSuggestion /\ ai'.pc # "idle") =>
       /\ IssuedRequest'.term = Str(trim(form'.term))
       /\ IssuedRequest'.definition = Undef
       /\ IssuedRequest'.example = Undef
       /\ IssuedRequest'.synonyms = Undef]_vars

(***************************************************************************)
(* The summary against the aggregates.                                     *)
(***************************************************************************)
\* the number of texts in the five lists aggregate(item) returns
RECURSIVE ListedFrom(_, _)
ListedFrom(item, n) ==
  IF n > Len(AI_SITUATION_KEYS) THEN 0
  ELSE Len(aggregateAlternatives(alternatives, item).results[AI_SITUATION_KEYS[n]])
       + ListedFrom(item, n + 1)

Listed(item) == ListedFrom(item, 1)

\* the terms whose alternatives are requested
SummaryItems == {tx, tX}

\* C29: when requests do not overlap, summary()[item] is the number of texts
\* in the five lists of aggregate(item), and summary has an entry for an item
\* exactly when that number is greater than zero
C29_SummaryCountsAggregate ==
  \A item \in SummaryItems \cup DOMAIN summary(alternatives) :
    /\ item \in DOMAIN summary(alternatives) <=> Listed(item) > 0
    /\ item \in DOMAIN summary(alternatives) => summary(alternatives)[item] = Listed(item)

\* the summary was read with records stored for both terms, one of them with
\* more than one text in a situation
C29_Witness ==
  /\ resp.op = "summary"
  /\ DOMAIN resp.summary = SummaryItems
  /\ \E k \in Situations : Len(aggregateAlternatives(alternatives, tx).results[k]) > 1
  /\ resp.summary[tx] # resp.summary[tX]

(***************************************************************************)
(* The answer of a completion.                                             *)
(***************************************************************************)
\* C30: the result of a successful complete call has at most one tag of
\* the enumeration, with an article of der, die, das when the tag is noun and
\* an empty article otherwise
C30_ResultConsistent ==
  completion.status = 200 =>
    /\ Len(completion.result.partOfSpeech) <= 1
    /\ Range(completion.result.partOfSpeech) \subseteq Range(allowedPos)
    /\ IF noun \in Range(completion.result.partOfSpeech)
       THEN completion.result.article \in {Str(der), Str(die), Str(das)}
       ELSE completion.result.article \in {Str(<<>>), Undef}

====
